---- MODULE Spec2Model ----
\* Model of the result reconciliation pipeline of Parser-KSEA:
\* DataSorting (src/data_sorting.py) over the configuration of
\* src/configuration.py.
\*
\* Strings that the code inspects character by character (URLs, dates) are
\* sequences of one-character strings, so that lower-casing, slicing,
\* prefix/suffix/substring tests and URL parsing are computed, not assumed.
\* Strings the code only compares as wholes (Person, Title) are TLA+ strings.
EXTENDS Integers, Sequences, FiniteSets, TLC

VARIABLES
    dataframe,   \* DataSorting.dataframe: the sequence of rows, in table order
    op,          \* the DataSorting method that ran last ("none" before any call)
    before,      \* the dataframe as it was when that method was called
    outcome,     \* what that call did: "self" (returned self) or the exception raised
    mapping,     \* the name mapping handed to Series.replace by rename_person
    url,         \* the argument of the current _check_relevance call
    shape,       \* how that argument was put together (input bookkeeping)
    result,      \* what the call returned: "pending", "True", "False" or the exception
    index,       \* fill_all_blank_slots: position of the row being processed
    pc,          \* fill_single_blank_slot: the statement about to run
    calls,       \* for the row being processed: how often each fetch oracle was invoked
    stored       \* for the row being processed: the fields _newspaper_parse has stored

vars == <<dataframe, op, before, outcome, mapping, url, shape, result,
          index, pc, calls, stored>>

--------------------------------------------------------------------------
\* Python values and string operations

\* Values that are not str: each is a one-element sequence holding a token of
\* several characters, so it differs from every character sequence.
NaN == <<"NaN">>
None == <<"None">>
Number == <<"int:42">>
NonStrings == {NaN, None, Number}

\* isinstance(v, str)
IsStr(v) == v \notin NonStrings

\* pd.isna(v) / pd.notna(v) on a scalar
IsNa(v) == v \in {NaN, None}

Min(a, b) == IF a <= b THEN a ELSE b

\* s[:n]
Take(s, n) == SubSeq(s, 1, Min(n, Len(s)))

\* s[n:]
Drop(s, n) == SubSeq(s, Min(n, Len(s)) + 1, Len(s))

\* s.startswith(p)
StartsWith(s, p) == Len(p) <= Len(s) /\ SubSeq(s, 1, Len(p)) = p

\* s.endswith(p)
EndsWith(s, p) == Len(p) <= Len(s) /\ SubSeq(s, Len(s) - Len(p) + 1, Len(s)) = p

\* w in s (substring test); the first character is compared before the slice
Contains(s, w) ==
    \/ w = <<>>
    \/ \E k \in 0..(Len(s) - Len(w)) : s[k + 1] = w[1] /\ SubSeq(s, k + 1, k + Len(w)) = w

\* s.find(c): 0-based position of the first occurrence of character c, or -1
Find(s, c) ==
    IF \E i \in 1..Len(s) : s[i] = c
    THEN (CHOOSE i \in 1..Len(s) : s[i] = c /\ \A j \in 1..(i - 1) : s[j] # c) - 1
    ELSE -1

Uppers == <<"A","B","C","D","E","F","G","H","I","J","K","L","M",
            "N","O","P","Q","R","S","T","U","V","W","X","Y","Z">>
Lowers == <<"a","b","c","d","e","f","g","h","i","j","k","l","m",
            "n","o","p","q","r","s","t","u","v","w","x","y","z">>
Digits == <<"0","1","2","3","4","5","6","7","8","9">>

Range(s) == {s[i] : i \in 1..Len(s)}

\* the case mappings of the ASCII letters
LowerOf == [c \in Range(Uppers) |-> Lowers[CHOOSE i \in 1..Len(Uppers) : Uppers[i] = c]]
UpperOf == [c \in Range(Lowers) |-> Uppers[CHOOSE i \in 1..Len(Lowers) : Lowers[i] = c]]

LowerChar(c) == IF c \in DOMAIN LowerOf THEN LowerOf[c] ELSE c

UpperChar(c) == IF c \in DOMAIN UpperOf THEN UpperOf[c] ELSE c

\* s.lower()
Lower(s) == [i \in 1..Len(s) |-> LowerChar(s[i])]

\* s.upper()
Upper(s) == [i \in 1..Len(s) |-> UpperChar(s[i])]

--------------------------------------------------------------------------
\* urllib.parse.urlparse, as far as _check_relevance uses it: the netloc.
\* (The inputs hold no whitespace, control or non-ASCII characters, so the
\* stripping and NFKC steps of urlsplit do nothing.)

\* urllib.parse.scheme_chars
Letters == Range(Lowers) \cup Range(Uppers)
scheme_chars == Letters \cup Range(Digits) \cup {"+", "-", "."}

\* urlsplit's scheme test: a ':' after a letter-led run of scheme characters
HasScheme(u) ==
    LET i == Find(u, ":")
    IN  /\ i > 0
        /\ u[1] \in Letters
        /\ \A k \in 1..i : u[k] \in scheme_chars

\* urllib.parse._splitnetloc(u, 2): u[2:delim] with delim the first of / ? #
splitnetloc(u) ==
    LET hits == {i \in 3..Len(u) : u[i] \in {"/", "?", "#"}}
        delim == IF hits = {} THEN Len(u) + 1
                 ELSE CHOOSE i \in hits : \A j \in hits : i <= j
    IN  SubSeq(u, 3, delim - 1)

\* urlparse(u): [raised, netloc]; raised models ValueError("Invalid IPv6 URL"),
\* which urlsplit raises when the netloc holds one of '[' and ']' without the other.
urlparse(u) ==
    LET rest == IF HasScheme(u) THEN Drop(u, Find(u, ":") + 1) ELSE u
        netloc == IF Take(rest, 2) = <<"/", "/">> THEN splitnetloc(rest) ELSE <<>>
        bad == ("[" \in Range(netloc)) # ("]" \in Range(netloc))
    IN  [raised |-> bad, netloc |-> netloc]

--------------------------------------------------------------------------
\* Configuration

\* configuration.py BLACKLISTED_DOMAINS, in list order, as Python evaluates the
\* literal: adjacent string literals with no comma between them are one entry
\* ("agroberichtenbuitenland.nl" "medicalplaza.ua", "savvy.ua" "academic.oup.com").
BLACKLISTED_DOMAINS ==
    << <<"k","s","e",".","u","a">>,
       <<"v","k",".","c","o","m">>,
       <<"f","a","c","e","b","o","o","k",".","c","o","m">>,
       <<"l","i","n","k","e","d","i","n",".","c","o","m">>,
       <<"i","n","s","t","a","g","r","a","m",".","c","o","m">>,
       <<"o","p","e","n","d","a","t","a","b","o","t",".","u","a">>,
       <<"t",".","m","e">>,
       <<"t","i","k","t","o","k",".","c","o","m">>,
       <<"l","e","t","t","e","r","b","o","x","d",".","c","o","m">>,
       <<"g","o","o","d","r","e","a","d","s",".","c","o","m">>,
       <<"s","c","h","o","l","a","r",".","g","o","o","g","l","e",".","c","o","m">>,
       <<"a","c","a","d","e","m","i","a",".","e","d","u">>,
       <<"s","c","r","i","b","d",".","c","o","m">>,
       <<"j","o","u","r","n","a","l","s",".","s","a","g","e","p","u","b",".","c","o","m">>,
       <<"f","r","e","e","p","o","l","i","c","y","b","r","i","e","f","s",".","o","r","g">>,
       <<"y","o","u","c","o","n","t","r","o","l",".","c","o","m">>,
       <<"s","w","r","a","i","l","w","a","y",".","g","o","v",".","u","a">>,
       <<"s","i","n","o","p","t","i","k",".","u","a">>,
       <<"g","i","s","m","e","t","e","o",".","u","a">>,
       <<"a","g","r","o","b","e","r","i","c","h","t","e","n","b","u","i","t","e","n","l","a","n","d",".","n","l","m","e","d","i","c","a","l","p","l","a","z","a",".","u","a">>,
       <<"k","h","m","i","l","c","l","i","n","i","c",".","c","o","m",".","u","a">>,
       <<"b","l","a","g","o","v","i","s","t",".","u","a">>,
       <<"v","k","u","r","s","i",".","p","r","o">>,
       <<"s","c","a","n","b","e",".","i","o">>,
       <<"m","e","t","e","o",".","g","o","v",".","u","a">>,
       <<"o","l","x",".","u","a">>,
       <<"p","r","o","m",".","u","a">>,
       <<"r","o","z","e","t","k","a",".","c","o","m",".","u","a">>,
       <<"h","o","t","l","i","n","e",".","u","a">>,
       <<"p","e","t","i","t","i","o","n",".","p","r","e","s","i","d","e","n","t",".","g","o","v",".","u","a">>,
       <<"i","t","b","o","x",".","u","a">>,
       <<"f","o","x","t","r","o","t",".","c","o","m",".","u","a">>,
       <<"k","a","b","a","n","c","h","i","k",".","u","a">>,
       <<"w","o","r","k",".","u","a">>,
       <<"r","a","b","o","t","a",".","u","a">>,
       <<"u","a",".","j","o","o","b","l","e",".","o","r","g">>,
       <<"e","-","s","c","h","o","o","l","s",".","i","n","f","o">>,
       <<"s","h","k","o","l","a",".","u","a">>,
       <<"d","p","a",".","t","e","s","t","p","o","r","t","a","l",".","g","o","v",".","u","a">>,
       <<"d","a","t","a","-","u","a",".","c","o","m">>,
       <<"s","n","u",".","e","d","u",".","u","a">>,
       <<"s","n","u",".","e","d","u",".","u","a">>,
       <<"v","o","l","y","n",".","c","o","m",".","u","a">>,
       <<"t","y","z","h","d","e","n",".","u","a">>,
       <<"k","s","e",".","m","e","d","i","u","m",".","c","o","m">>,
       <<"k","p","i",".","s","t","u",".","c","n",".","u","a">>,
       <<"i","p","p","o",".","k","u","b","g",".","e","d","u",".","u","a">>,
       <<"d","e","t","e","c","t","o","r",".","m","e","d","i","a">>,
       <<"k","y","i","v","o","p","e","r","a","t","i","v",".","i","n","f","o">>,
       <<"e","c","o","n","o","m","y","a","n","d","s","o","c","i","e","t","y",".","i","n",".","u","a">>,
       <<"d","s","p","a","c","e",".","u","z","h","n","u",".","e","d","u",".","u","a">>,
       <<"e","r",".","k","n","u","t","d",".","e","d","u",".","u","a">>,
       <<"a","r","e","-","j","o","u","r","n","a","l",".","c","o","m">>,
       <<"m","a","n",".","o","r","g",".","u","a">>,
       <<"b","a","z","e","k","o","n",".","i","c","m",".","e","d","u",".","p","l">>,
       <<"p","m","c",".","n","c","b","i",".","n","l","m",".","n","i","h",".","g","o","v">>,
       <<"k","a","f",".","e","p",".","o","n","t","u",".","e","d","u",".","u","a">>,
       <<"a","s","t","r","i","d","-","o","n","l","i","n","e",".","i","t">>,
       <<"m","d","p","i",".","c","o","m">>,
       <<"a","e","a","w","e","b",".","o","r","g">>,
       <<"e","s",".","k","h","p","i",".","e","d","u",".","u","a">>,
       <<"e","a","p","k",".","c","o","m",".","u","a">>,
       <<"i","r",".","k","n","e","u",".","e","d","u",".","u","a">>,
       <<"r","e","s","e","a","r","c","h","g","a","t","e",".","n","e","t">>,
       <<"p","h","i","l","a","r","c","h","i","v","e",".","o","r","g">>,
       <<"d","l","f",".","u","a">>,
       <<"i","s","g","-","j","o","u","r","n","a","l",".","c","o","m">>,
       <<"i","e","r",".","c","o","m",".","u","a">>,
       <<"c","a","s","e","-","u","k","r","a","i","n","e",".","c","o","m",".","u","a">>,
       <<"g","t","a","p",".","a","g","e","c","o","n",".","p","u","r","d","u","e",".","e","d","u">>,
       <<"o","n","l","i","n","e","l","i","b","r","a","r","y",".","w","i","l","e","y",".","c","o","m">>,
       <<"e","c","o","n","p","a","p","e","r","s",".","r","e","p","e","c",".","o","r","g">>,
       <<"w","w","w","2",".","i","f","r","n",".","e","d","u",".","b","r">>,
       <<"i","d","e","a","s",".","r","e","p","e","c",".","o","r","g">>,
       <<"c","g","s","p","a","c","e",".","c","g","i","a","r",".","o","r","g">>,
       <<"g","m","d",".","c","o","p","e","r","n","i","c","u","s",".","o","r","g">>,
       <<"p","u","b","l","i","c","a","t","i","o","n","s",".","j","r","c",".","e","c",".","e","u","r","o","p","a",".","e","u">>,
       <<"o","p","s","a","a",".","i","i","c","a",".","i","n","t">>,
       <<"i","o","p","s","c","i","e","n","c","e",".","i","o","p",".","o","r","g">>,
       <<"s","c","i","e","n","c","e","d","i","r","e","c","t",".","c","o","m">>,
       <<"o","d",".","v","g","o","r","o","d","e",".","u","a">>,
       <<"g","u","r","t",".","o","r","g",".","u","a">>,
       <<"o","s","t","r","o","h",".","i","n","f","o">>,
       <<"i","n","n","e","c","o",".","o","r","g">>,
       <<"d","e","v",".","u","a">>,
       <<"l","v","e","t",".","e","d","u",".","u","a">>,
       <<"m","a","r","y","a","n","i","v","s","k","a","t","g",".","g","o","v",".","u","a">>,
       <<"e","c","d",".","t","d","m","u",".","e","d","u",".","u","a">>,
       <<"k","i","u",".","e","u","r","o","p","a","-","u","n","i",".","d","e">>,
       <<"s","u","p","e","r","n","e","t",".","i","s","e","n","b","e","r","g",".","u","m","a","s","s",".","e","d","u">>,
       <<"p","a","p","e","r","s",".","s","s","r","n",".","c","o","m">>,
       <<"x",".","c","o","m">>,
       <<"u","n","i","v","e","r","s","i","t","y","w","o","r","l","d","n","e","w","s",".","c","o","m">>,
       <<"v","h","p","t","u","5",".","v","n",".","u","a">>,
       <<"s","a","v","v","y",".","u","a","a","c","a","d","e","m","i","c",".","o","u","p",".","c","o","m">>,
       <<"a","r","x","i","v",".","o","r","g">>,
       <<"t","a","n","d","f","o","n","l","i","n","e",".","c","o","m">>,
       <<"a","g","e","c","o","n","s","e","a","r","c","h",".","u","m","n",".","e","d","u">>,
       <<"a","9","5",".","u","a">>,
       <<"u","k","r","-","r","e","v","o","l","u","t","i","o","n",".","h","i","s","t","o","r","y",".","o","r","g",".","u","a">>,
       <<"a","g","r","o","m","a","s","t","e","r",".","i","n","f","o">>,
       <<"s","h","p","o","l","y","a","n","o","c","h","k","a",".","c","o","m",".","u","a">>,
       <<"r","e","p","o",".","b","t","u",".","k","h","a","r","k","i","v",".","u","a">>,
       <<"k","r","-","r","a","d","a",".","g","o","v",".","u","a">>,
       <<"b","i","o","t","e","c","h","u","n","i","v",".","e","d","u",".","u","a">>,
       <<"u","k",".","w","i","k","i","p","e","d","i","a",".","o","r","g">>,
       <<"c","h","e","s","n","o",".","o","r","g">>,
       <<"o","p","e","n",".","s","p","o","t","i","f","y",".","c","o","m">>,
       <<"c","a","n","a","c","t","i","o","n","s",".","c","o","m">>,
       <<"k","n","e","u",".","e","d","u",".","u","a">>,
       <<"k","n","u",".","u","a">>,
       <<"h","y","e","s","e","o","n","s","h","i","n",".","c","o","m">>,
       <<"w","o","r","l","d","s","c","i","e","n","t","i","f","i","c",".","c","o","m">>,
       <<"a","m","t",".","c","o","p","e","r","n","i","c","u","s",".","o","r","g">>,
       <<"v","o","x","u","k","r","a","i","n","e",".","o","r","g">>,
       <<"i","m","d","b",".","c","o","m">>,
       <<"f","u","n","b","a","l","l",".","o","r","g",".","u","a">>,
       <<"r","a","y","r","a","d","a",".","c","k",".","u","a">>,
       <<"n","e","w",".","k","n","u","t","e",".","e","d","u",".","u","a">>,
       <<"e","n",".","w","i","k","i","p","e","d","i","a",".","o","r","g">>,
       <<"k","i","u",".","e","u","r","o","p","a","-","u","n","i",".","d","e">>,
       <<"s","a","v","v","y",".","u","a">>,
       <<"l","a","e","s","p","e","c","i","a","l",".","c","o","m",".","a","r">>,
       <<"e","v","e","n","t","s",".","b","a","n","k",".","g","o","v",".","u","a">>,
       <<"d","b","n","l",".","o","r","g">>,
       <<"r","e","s","e","a","r","c","h",".","w","u","r",".","n","l">>,
       <<"u","k","m","a",".","e","d","u",".","u","a">>,
       <<"a","r","t","s","a","n","d","c","u","l","t","u","r","e",".","g","o","o","g","l","e",".","c","o","m">>,
       <<"e","k","m","a","i","r",".","u","k","m","a",".","e","d","u",".","u","a">>,
       <<"t","a","b","s",".","u","l","t","i","m","a","t","e","-","g","u","i","t","a","r",".","c","o","m">>,
       <<"b","i","b","l","i","o","t","e","k","a",".","c","d","u",".","e","d","u",".","u","a">>,
       <<"k","o","l","o","s","o","k",".","o","r","g",".","u","a">>,
       <<"z","a","k","o","n",".","r","a","d","a",".","g","o","v",".","u","a">>,
       <<"p","e","r","i","o","d","i","c","a","l","s",".","k","a","r","a","z","i","n",".","u","a">>,
       <<"p","h","a","r","m","a","c","o","l","o","g","y","o","n","l","i","n","e",".","s","i","l","a","e",".","i","t">>,
       <<"m","o","l","o","d","y","i","v","c","h","e","n","y","i",".","u","a">>,
       <<"o","b","u","v","n","a",".","c","o","m">>,
       <<"j","o","u","r","n","a","l","s",".","u","r","a","n",".","u","a">>,
       <<"e","p","c",".","e","u">>,
       <<"y","u","r","-","g","a","z","e","t","a",".","c","o","m">>,
       <<"u","a","d","a","i","r","y",".","c","o","m">>,
       <<"p","o","l","e","a","r","t",".","c","o","m">>,
       <<"a","r","c","h","i","v","e",".","o","r","g">>,
       <<"l","i","b",".","v","s","m","u",".","b","y">>,
       <<"i","o","v","s",".","a","r","v","o","j","o","u","r","n","a","l","s",".","o","r","g">>,
       <<"m","a","r","i","k","a","m","a","g","a","z","i","n","e",".","c","o","m">>,
       <<"u","a",".","h","-","i","n","d","e","x",".","c","o","m">>,
       <<"j","e","e","n","g",".","n","e","t">>,
       <<"m",".","k","s","i","s",".","e","u">>,
       <<"b","e","k","e","t",".","c","o","m",".","u","a">>,
       <<"n","a","s","h","i","g","r","o","s","h","i",".","o","r","g">>,
       <<"v","a","k","p",".","n","l","u",".","e","d","u",".","u","a">>,
       <<"l","a","s","k","a",".","u","a">>,
       <<"k","n","i","a","z","h","a",".","u","a">>,
       <<"c","i","t","i","z","e","n",".","i","n",".","u","a">>,
       <<"e","p","r","i","n","t","s",".","k","n","a","m","e",".","e","d","u",".","u","a">>,
       <<"i","s","t","p","r","a","v","d","a",".","c","o","m",".","u","a">>,
       <<"u","n","b","a",".","c","o","m",".","u","a">>,
       <<"u","m","o","l","o","d","a",".","k","i","e","v",".","u","a">>,
       <<"o","k","h","t","y","r","k","a",".","n","e","t">>,
       <<"p","r","a","v","o","s","l","a","v","i","e",".","p","o","l","t","a","v","a",".","u","a">>,
       <<"s","h","a","j",".","s","u","m","d","u",".","e","d","u",".","u","a">>,
       <<"g","r","d",".","g","o","v",".","u","a">>,
       <<"j","o","u","r","n","a","l","s",".","a","p","s",".","o","r","g">>,
       <<"o","k","l",".","k","i","e","v",".","u","a">>,
       <<"f","i","n",".","o","r","g",".","u","a">>,
       <<"s","s","o","a","r",".","i","n","f","o">>,
       <<"m","u","l","i","t","v","i","n","o","v",".","c","z">>,
       <<"s","i","t","e","s",".","g","o","o","g","l","e",".","c","o","m">>,
       <<"e","u","r","o","p","e","p","m","c",".","o","r","g">>,
       <<"i","d","n","e","s",".","c","z">>,
       <<"o","s","c","e",".","o","r","g",".","u","a">>,
       <<"c","s","e","c","u","r","i","t","y",".","k","u","b","g",".","e","d","u",".","u","a">>,
       <<"c","o","r","d","i","s",".","e","u","r","o","p","a",".","e","u">>,
       <<"4","4",".","u","a">>,
       <<"h","a","l",".","s","c","i","e","n","c","e">>,
       <<"i","n","d","i","c","o",".","c","e","r","n",".","c","h">>,
       <<"p","u","b","s",".","a","c","s",".","o","r","g">>,
       <<"m","e","e","t","i","n","g","o","r","g","a","n","i","z","e","r",".","c","o","p","e","r","n","i","c","u","s",".","o","r","g">>,
       <<"j","c","i",".","o","r","g">>,
       <<"b","o","o","k","s",".","o","p","e","n","b","o","o","k","p","u","b","l","i","s","h","e","r","s",".","c","o","m">>,
       <<"d","e","j","u","r","e",".","o","r","g">>,
       <<"h","i","-","t","e","c","h",".","u","a">>,
       <<"e","s","u",".","c","o","m",".","u","a">>,
       <<"s","i","d",".","i","r">>,
       <<"p","e","o","p","l","e",".","r","a","d","a",".","g","o","v",".","u","a">>,
       <<"l","a","e","n","d","e","r","-","a","n","a","l","y","s","e","n",".","d","e">>,
       <<"k","d","p","u",".","e","d","u",".","u","a">>,
       <<"p","u","b","s",".","a","c","s",".","o","r","g">>,
       <<"p","o","l","i","s","s","y","a","f","c",".","c","o","m">>,
       <<"d","b","l","p",".","o","r","g">>,
       <<"b","a","s","h","t","a","n","s","k","a","o","t","g",".","g","o","v",".","u","a">> >>

\* configuration.py URL_STOP_WORDS, in list order.
URL_STOP_WORDS ==
    << <<"w","e","a","t","h","e","r">>,
       <<"p","o","g","o","d","a">>,
       <<"s","n","i","h">>,
       <<"d","o","z","h","d">>,
       <<"m","o","k","r","y","j","-","s","n","i","h">>,
       <<"o","z","h","e","l","e","d","y","t","s","i","a">>,
       <<"t","i","m","e","t","a","b","l","e">>,
       <<"r","o","z","k","l","a","d">>,
       <<"t","i","c","k","e","t">>,
       <<"p","a","s","s","e","n","g","e","r","s">>,
       <<"r","e","a","l","t","o","r">>,
       <<"k","v","a","r","t","i","r","a">>,
       <<"o","r","e","n","d","a">>,
       <<"a","u","c","t","i","o","n">>,
       <<"p","r","o","z","o","r","r","o",".","s","a","l","e">>,
       <<"c","l","i","n","i","c">>,
       <<"l","i","k","a","r">>,
       <<"a","p","p","o","i","n","t","m","e","n","t">>,
       <<"r","e","v","i","e","w","s">>,
       <<"m","e","d","-","c","e","n","t","e","r">>,
       <<"l","o","g","i","n">>,
       <<"s","i","g","n","u","p">>,
       <<"r","e","g","i","s","t","e","r">>,
       <<"c","a","r","t">>,
       <<"c","h","e","c","k","o","u","t">>,
       <<"f","o","l","l","o","w","e","r","s">>,
       <<"f","o","l","l","o","w","i","n","g">>,
       <<"s","i","t","e","/","m","a","t","h","r","e","s","u","l","t">>,
       <<"s","e","a","r","c","h","?","q","=">>,
       <<"k","v","e","d">>,
       <<"f","o","-","p">>,
       <<"p","e","r","s","o","n","s">>,
       <<"d","o","s","y","e">> >>

\* DataSorting.__init__: self.blacklisted_domains, self.url_stop_words
blacklisted_domains == BLACKLISTED_DOMAINS
url_stop_words == URL_STOP_WORDS

--------------------------------------------------------------------------
\* DataSorting._check_relevance

\* the entries of the two lists (the loops stop at the first hit, so the
\* order of the entries decides nothing)
BlacklistSet == Range(blacklisted_domains)
StopWordSet == Range(url_stop_words)

\* domain.endswith("." + e): the dot first, then the characters after it
EndsWithDotted(domain, e) ==
    /\ Len(domain) > Len(e)
    /\ domain[Len(domain) - Len(e)] = "."
    /\ SubSeq(domain, Len(domain) - Len(e) + 1, Len(domain)) = e

\* domain.startswith(e + "."): the dot first, then the characters before it
StartsWithDotted(domain, e) ==
    /\ Len(domain) > Len(e)
    /\ domain[Len(e) + 1] = "."
    /\ SubSeq(domain, 1, Len(e)) = e

\* the domain test with exact matches only (as LinkFilter.is_relevant does it)
DomainBlacklistedExactOnly(domain) == domain \in BlacklistSet

\* the domain test as a plain substring test
DomainBlacklistedSubstring(domain) ==
    \E blocked_domain \in BlacklistSet : Contains(domain, blocked_domain)

\* lines 177-183: the loop over the blacklist, then the list membership test
DomainBlacklisted(domain) ==
    \/ \E blocked_domain \in BlacklistSet :
          \/ domain = blocked_domain
          \/ EndsWithDotted(domain, blocked_domain)
          \/ StartsWithDotted(domain, blocked_domain)
    \/ domain \in BlacklistSet

\* the stop-word test against the URL as given, without lower-casing
StopWordHitCaseSensitive(u, original) ==
    \E word \in StopWordSet : Contains(original, word)

\* lines 186-188: any stop-word in the (lower-cased) URL
StopWordHit(u, original) ==
    \E word \in StopWordSet : Contains(u, word)

\* lines 170-172: netloc, lower-cased, minus one leading "www."
DomainOf(netloc) ==
    LET domain == Lower(netloc)
    IN  IF StartsWith(domain, <<"w","w","w",".">>) THEN Drop(domain, 4) ELSE domain

\* _check_relevance(url): "True", "False", or the exception that escapes it
check_relevance(v) ==
    IF ~IsStr(v) THEN "False"
    ELSE LET u == Lower(v)
             parsed_url == urlparse(u)
         IN  IF parsed_url.raised THEN "ValueError"
             ELSE IF DomainBlacklisted(DomainOf(parsed_url.netloc)) THEN "False"
             ELSE IF StopWordHit(u, v) THEN "False"
             ELSE "True"

--------------------------------------------------------------------------
\* Rows of the table. The columns are those of the raw export
\* (Person, Title, Date, Source, Link) plus 'Tittle text', written Tittle_text.

\* the value of 'Tittle text' in a table that has no such column yet
NoColumn == <<"no column">>

Row(person, title, date, source, link, text) ==
    [Person |-> person, Title |-> title, Date |-> date, Source |-> source,
     Link |-> link, Tittle_text |-> text]

\* rows of t at the positions in keep, in table order (boolean-mask selection)
RECURSIVE SelectRows(_, _)
SelectRows(t, keep) ==
    IF t = <<>> THEN <<>>
    ELSE LET rest == SelectRows(Tail(t), {i - 1 : i \in keep \ {1}})
         IN  IF 1 \in keep THEN <<Head(t)>> \o rest ELSE rest

--------------------------------------------------------------------------
\* DataSorting.apply_url_filter

\* a mask that keeps every row
UrlFilterMaskKeepsAll(t) == [i \in 1..Len(t) |-> "True"]

\* lines 142-145: _check_relevance of every row's Link, in row order
url_filter_mask(t) == [i \in 1..Len(t) |-> check_relevance(t[i].Link)]

\* lines 136-151; an exception of _check_relevance escapes dataframe.apply
\* before self.dataframe is assigned
apply_url_filter ==
    LET mask == url_filter_mask(dataframe)
    IN  /\ op' = "apply_url_filter"
        /\ before' = dataframe
        /\ IF \E i \in 1..Len(mask) : mask[i] = "ValueError"
           THEN /\ outcome' = "ValueError"
                /\ dataframe' = dataframe
           ELSE /\ outcome' = "self"
                /\ dataframe' = SelectRows(dataframe, {i \in 1..Len(mask) : mask[i] = "True"})
    /\ UNCHANGED <<mapping, url, shape, result, index, pc, calls, stored>>

--------------------------------------------------------------------------
\* Inputs of _check_relevance: URLs put together around a blacklist entry

Str_https == <<"h","t","t","p","s",":","/","/">>
Str_www == <<"w","w","w",".">>

\* hosts that no blacklist entry touches
CleanHosts ==
    << <<"e","x","a","m","p","l","e",".","c","o","m">>,
       <<"n","e","w","s",".","e","x","a","m","p","l","e",".","o","r","g">>,
       <<"c","a","r","t","o","o","n",".","t","v">> >>

\* what follows the netloc: nothing, a path with query and fragment, a path
\* holding the stop-word "login"
Tails ==
    << <<>>,
       <<"/","n","e","w","s","/","a","?","i","d","=","1","#","t","o","p">>,
       <<"/","u","s","e","r","/","l","o","g","i","n">> >>

\* strings urlsplit rejects: a netloc with an unbalanced bracket
Malformed ==
    << <<"h","t","t","p",":","/","/","[",":",":","1","/","a">>,
       <<"h","t","t","p","s",":","/","/","e","x","a","]","m","p","l","e",".","c","o","m","/">> >>

NonStringValues == <<NaN, None, Number>>

BlacklistKinds == {"exact", "sub", "prefix", "glued_left", "glued_right", "port"}

Shapes ==
    [kind : BlacklistKinds, d : 1..Len(BLACKLISTED_DOMAINS),
     www : BOOLEAN, upper : BOOLEAN, tail : 1..Len(Tails)]
    \cup [kind : {"other"}, d : 1..Len(CleanHosts),
          www : BOOLEAN, upper : BOOLEAN, tail : 1..Len(Tails)]
    \cup [kind : {"noscheme"}, d : 1..Len(CleanHosts),
          www : BOOLEAN, upper : BOOLEAN, tail : 1..Len(Tails)]
    \cup [kind : {"malformed"}, d : 1..Len(Malformed),
          www : {FALSE}, upper : {FALSE}, tail : {1}]
    \cup [kind : {"nonstr"}, d : 1..Len(NonStringValues),
          www : {FALSE}, upper : {FALSE}, tail : {1}]
    \cup [kind : {"empty"}, d : {1}, www : {FALSE}, upper : {FALSE}, tail : {1}]

\* the host the input is built around, in lower case and without "www."
HostOf(s) ==
    CASE s.kind = "exact"       -> BLACKLISTED_DOMAINS[s.d]
      [] s.kind = "sub"         -> <<"n","e","w","s",".">> \o BLACKLISTED_DOMAINS[s.d]
      [] s.kind = "prefix"      -> BLACKLISTED_DOMAINS[s.d] \o <<".","c","o">>
      [] s.kind = "glued_left"  -> <<"n","o","t">> \o BLACKLISTED_DOMAINS[s.d]
      [] s.kind = "glued_right" -> BLACKLISTED_DOMAINS[s.d] \o <<"x">>
      [] s.kind = "port"        -> BLACKLISTED_DOMAINS[s.d] \o <<":","8","0","8","0">>
      [] s.kind = "other"       -> CleanHosts[s.d]
      [] OTHER                  -> <<>>

\* the value handed to _check_relevance
BuildUrl(s) ==
    LET www == IF s.www THEN Str_www ELSE <<>>
        text == CASE s.kind = "noscheme"  -> www \o CleanHosts[s.d] \o Tails[s.tail]
                  [] s.kind = "malformed" -> Malformed[s.d]
                  [] s.kind = "empty"     -> <<>>
                  [] OTHER                -> Str_https \o www \o HostOf(s) \o Tails[s.tail]
    IN  IF s.kind = "nonstr" THEN NonStringValues[s.d]
        ELSE IF s.upper THEN Upper(text) ELSE text

\* df = DataSorting(table); df._check_relevance(url)
call_check_relevance ==
    /\ result = "pending"
    /\ result' = check_relevance(url)
    /\ UNCHANGED <<dataframe, op, before, outcome, mapping, url, shape,
                   index, pc, calls, stored>>

InitRelevance ==
    /\ shape \in Shapes
    /\ url = BuildUrl(shape)
    /\ result = "pending"
    /\ dataframe = <<>>
    /\ op = "none"
    /\ before = dataframe
    /\ outcome = "none"
    /\ mapping = <<>>
    /\ index = 0
    /\ pc = "idle"
    /\ calls = <<>>
    /\ stored = <<>>

NextRelevance == call_check_relevance

SpecRelevance == InitRelevance /\ [][NextRelevance]_vars

--------------------------------------------------------------------------
\* Configuration: names. The module is ASCII, so a name in Cyrillic script is
\* written "[uk] " + its transliteration, and the Cyrillic letter U+0435 inside
\* a Latin-script name is written "[ie]". Different names stay different.

SEARCH_QUERY ==
    << "Center for Food and Land Use Research (KSE Agrocenter)",
       "[uk] Ahrotsentr KSE",
       "Oleg Nivievskyi", "Oleh Nivievskyi", "[uk] Oleh Nivievskyi",
       "Mariia Bogonos", "[uk] Mariia Bogonos",
       "Pavlo Martyshev", "[uk] Pavlo Martyshev",
       "Valentyn Litvinov", "[uk] Valentyn Litvinov",
       "Ivan Kolodiazhnyi", "[uk] Ivan Kolodiazhnyi",
       "Ellina Iurchenko", "[uk] Ellina Iurchenko",
       "Roksolana Nazarkina", "[uk] Roksolana Nazarkina",
       "Hryhorii Stolnikovych", "[uk] Hryhorii Stolnikovych",
       "Roman Neyter", "[uk] Roman Neyter",
       "Igor Piddubnyi", "[uk] Igor Piddubnyi",
       "[uk] Dmytro Dushko", "Dmytro Dushko",
       "Artur Burak", "[uk] Artur Burak",
       "Dmytro T[ie]sl[ie]nko", "[uk] Dmytro Teslenko" >>

\* the dict literal REWRITE_NAMES as its key/value pairs, in source order
REWRITE_NAMES_items ==
    << <<"Center for Food and Land Use Research (KSE Agrocenter)", "KSE Agrocenter">>,
       <<"[uk] Ahrotsentr KSE", "KSE Agrocenter">>,
       <<"Oleg Nivievskyi", "Oleh Nivievskyi">>,
       <<"[uk] Oleh Nivievskyi", "Oleh Nivievskyi">>,
       <<"[uk] Mariia Bogonos", "Mariia Bogonos">>,
       <<"[uk] Pavlo Martyshev", "Pavlo Martyshev">>,
       <<"[uk] Valentyn Litvinov", "Valentyn Litvinov">>,
       <<"[uk] Ivan Kolodiazhnyi", "Ivan Kolodiazhnyi">>,
       <<"[uk] Ellina Iurchenko", "Ellina Iurchenko">>,
       <<"[uk] Roksolana Nazarkina", "Roksolana Nazarkina">>,
       <<"[uk] Artur Burak", "Artur Burak">>,
       <<"[uk] Dmytro Teslenko", "Dmytro T[ie]sl[ie]nko">>,
       <<"[uk] Dmytro Dushko", "Dmytro Dushko">>,
       <<"[uk] Hryhorii Stolnikovych", "Hryhorii Stolnikovych">>,
       <<"[uk] Roman Neyter", "Roman Neyter">>,
       <<"[uk] Igor Piddubnyi", "Igor Piddubnyi">> >>

\* a dict from its items (a later item with the same key wins, as in Python)
DictOf(items) ==
    [k \in {items[i][1] : i \in 1..Len(items)} |->
        items[CHOOSE i \in 1..Len(items) :
                 items[i][1] = k /\ \A j \in (i + 1)..Len(items) : items[j][1] # k][2]]

REWRITE_NAMES == DictOf(REWRITE_NAMES_items)

--------------------------------------------------------------------------
\* DataSorting.rename_person and DataSorting.remove_duplicates

\* Series.replace(m) on one value, with the result thrown away
ReplaceNotAssigned(v, m) == v

\* Series.replace(m) on one value: a value that is a key of m becomes m[value],
\* in one pass (the replacement is not looked up again); others stay
Replace(v, m) == IF v \in DOMAIN m THEN m[v] ELSE v

\* the Person column of t after a replace that stops at the first row it changes
RenameFirstMatchOnly(t, m) ==
    LET hits == {i \in 1..Len(t) : t[i].Person \in DOMAIN m}
        first == IF hits = {} THEN 0 ELSE CHOOSE i \in hits : \A j \in hits : i <= j
    IN  [i \in 1..Len(t) |-> IF i = first THEN [t[i] EXCEPT !.Person = m[@]] ELSE t[i]]

\* line 114: dataframe['Person'] = dataframe['Person'].replace(m)
RenamePersons(t, m) == [i \in 1..Len(t) |-> [t[i] EXCEPT !.Person = Replace(@, m)]]

rename_person ==
    /\ op' = "rename_person"
    /\ before' = dataframe
    /\ outcome' = "self"
    /\ dataframe' = RenamePersons(dataframe, mapping)
    /\ UNCHANGED <<mapping, url, shape, result, index, pc, calls, stored>>

\* drop_duplicates(subset=['Link'], keep='last')
DropDuplicatesKeepLast(t) ==
    SelectRows(t, {i \in 1..Len(t) : \A j \in (i + 1)..Len(t) : t[j].Link # t[i].Link})

\* line 125: drop_duplicates(subset=['Link'], keep='first'); missing Links
\* count as equal to each other
DropDuplicates(t) ==
    SelectRows(t, {i \in 1..Len(t) : \A j \in 1..(i - 1) : t[j].Link # t[i].Link})

remove_duplicates ==
    /\ op' = "remove_duplicates"
    /\ before' = dataframe
    /\ outcome' = "self"
    /\ dataframe' = DropDuplicates(dataframe)
    /\ UNCHANGED <<mapping, url, shape, result, index, pc, calls, stored>>

--------------------------------------------------------------------------
\* Tables the methods are run on

\* bound: the longest table
MaxRows == 3

Date_ISO == <<"2","0","2","3","-","0","5","-","0","1","T","1","0",":","0","0",":","0","0","Z">>
Date_Day == <<"2","0","2","1","-","1","1","-","3","0">>

Link_kse == <<"h","t","t","p","s",":","/","/","k","s","e",".","u","a","/","x">>
Link_a == <<"h","t","t","p","s",":","/","/","e","x","a","m","p","l","e",".","c","o","m","/","a">>
Link_login == <<"h","t","t","p","s",":","/","/","E","x","a","m","p","l","e",".","c","o","m","/","N","e","w","s","?","n","e","x","t","=","L","O","G","I","N">>
Link_cartoon == <<"h","t","t","p","s",":","/","/","w","w","w",".","c","a","r","t","o","o","n",".","t","v","/","a">>
Link_malformed == <<"h","t","t","p",":","/","/","[",":",":","1","/","a">>

\* the netlocs the links above were written with
LinkHosts ==
    << <<Link_kse, <<"k","s","e",".","u","a">>>>,
       <<Link_a, <<"e","x","a","m","p","l","e",".","c","o","m">>>>,
       <<Link_login, <<"E","x","a","m","p","l","e",".","c","o","m">>>>,
       <<Link_cartoon, <<"w","w","w",".","c","a","r","t","o","o","n",".","t","v">>>> >>

\* rows of a raw export: Person is a search query; two rows share Link_a and
\* differ in Person and Title; one row has no Link, one a Link urlparse rejects
TableRows ==
    { Row("Oleh Nivievskyi", "KSE", Date_Day, "kse.ua", Link_kse, NoColumn),
      Row("Oleg Nivievskyi", "Grain exports", Date_ISO, "example.com", Link_a, NoColumn),
      Row("[uk] Mariia Bogonos", "Grain exports, again", NaN, "example.com", Link_a, NoColumn),
      Row("Mariia Bogonos", "Sign in", NaN, "example.com", Link_login, NoColumn),
      Row("[uk] Oleh Nivievskyi", "Cartoons", Date_Day, "cartoon.tv", Link_cartoon, NoColumn),
      Row("Dmytro T[ie]sl[ie]nko", "No link", NaN, "", NaN, NoColumn),
      Row("Oleg Nivievskyi", "Broken link", NaN, "", Link_malformed, NoColumn) }

\* all tables of 1..n rows
TablesUpTo(rows, n) == UNION {[1..k -> rows] : k \in 1..n}

Init ==
    /\ dataframe \in TablesUpTo(TableRows, MaxRows)
    /\ op = "none"
    /\ before = dataframe
    /\ outcome = "none"
    /\ mapping = REWRITE_NAMES
    /\ url = None
    /\ shape = [kind |-> "none"]
    /\ result = "none"
    /\ index = 0
    /\ pc = "idle"
    /\ calls = <<>>
    /\ stored = <<>>

Next ==
    \/ remove_duplicates
    \/ rename_person
    \/ apply_url_filter

Spec == Init /\ [][Next]_vars

--------------------------------------------------------------------------
\* renamePersons(T, M) for mappings M other than REWRITE_NAMES

RenameNames == {"Oleg Nivievskyi", "Oleh Nivievskyi", "[uk] Oleh Nivievskyi"}

\* every mapping from some of the names to names, and the configured one
Mappings ==
    UNION {[keys -> RenameNames] : keys \in SUBSET RenameNames} \cup {REWRITE_NAMES}

PersonRow(person) == Row(person, "Grain exports", NaN, "example.com", Link_a, NoColumn)

InitRename ==
    /\ mapping \in Mappings
    /\ dataframe \in TablesUpTo({PersonRow(p) : p \in RenameNames \cup {"[uk] Mariia Bogonos"}},
                                MaxRows)
    /\ op = "none"
    /\ before = dataframe
    /\ outcome = "none"
    /\ url = None
    /\ shape = [kind |-> "none"]
    /\ result = "none"
    /\ index = 0
    /\ pc = "idle"
    /\ calls = <<>>
    /\ stored = <<>>

NextRename == rename_person

SpecRename == InitRename /\ [][NextRename]_vars

--------------------------------------------------------------------------
\* Enrichment: fill_all_blank_slots, fill_single_blank_slot and the strategies.
\* A body text is <<where it came from, its length in characters>>; a
\* datetime (Article.publish_date) is <<"datetime", y, m, d, H, M, S>>.

\* _newspaper_parse / _requests_parse: max_text_save_len
max_text_save_len == 1500

\* fill_single_blank_slot: the slice bound of str(Date)[:10]
date_slice == 10

\* bound: the longest table enrichment is run on
MaxEnrichRows == 2

IsDatetime(v) == Len(v) = 7 /\ v[1] = "datetime"

Pad2(n) == <<Digits[(n \div 10) + 1], Digits[(n % 10) + 1]>>
Pad4(n) == Pad2(n \div 100) \o Pad2(n % 100)

\* str(v): a string is itself, a datetime prints as YYYY-MM-DD HH:MM:SS
Str(v) ==
    IF IsDatetime(v)
    THEN Pad4(v[2]) \o <<"-">> \o Pad2(v[3]) \o <<"-">> \o Pad2(v[4]) \o <<" ">>
         \o Pad2(v[5]) \o <<":">> \o Pad2(v[6]) \o <<":">> \o Pad2(v[7])
    ELSE v

\* the text stored whole
TruncateNothing(text) == text

\* text[:max_text_save_len]
Truncate(text) == <<text[1], Min(text[2], max_text_save_len)>>

\* what the oracles can answer for a page
TextLengths == {0, 20, 2000}
PublishDates == {None, <<"datetime", 2023, 5, 1, 10, 0, 0>>}
FoundDates == {None, <<"2","0","2","2","-","0","2","-","2","4">>}

\* Article(url).download(); parse(): an exception, or a text (possibly empty)
\* and a publish date (possibly None)
NewspaperAnswers ==
    {[raised |-> TRUE]}
    \cup [raised : {FALSE}, text : {<<"newspaper", n>> : n \in TextLengths},
          publish_date : PublishDates]

\* find_date(url, ...): an exception, None, or a date in %Y-%m-%d
FindDateAnswers == {[raised |-> TRUE]} \cup [raised : {FALSE}, found_date : FoundDates]

\* requests.get(url) and BeautifulSoup: an exception, or the page text with
\* its whitespace collapsed
RequestsAnswers ==
    {[raised |-> TRUE]}
    \cup [raised : {FALSE}, clean_article_text : {<<"requests", n>> : n \in TextLengths}]

NoCalls == [newspaper |-> 0, find_date |-> 0, get |-> 0]
\* failed: the oracles that raised for the row being filled
NothingStored == [text |-> FALSE, date |-> FALSE, failed |-> {}]

\* lines 204-208: the column 'Tittle text' is created, all None, if missing
WithTextColumn(t) ==
    IF \E i \in 1..Len(t) : t[i].Tittle_text = NoColumn
    THEN [i \in 1..Len(t) |-> [t[i] EXCEPT !.Tittle_text = None]]
    ELSE t

\* lines 193-212: up to the first turn of the loop over the rows
fill_all_blank_slots ==
    /\ pc = "idle"
    /\ op' = "fill_all_blank_slots"
    /\ before' = dataframe
    /\ outcome' = "running"
    /\ dataframe' = WithTextColumn(dataframe)
    /\ index' = 1
    /\ pc' = IF Len(dataframe) = 0 THEN "done" ELSE "row"
    /\ calls' = NoCalls
    /\ stored' = NothingStored
    /\ UNCHANGED <<mapping, url, shape, result>>

\* the test of line 231 without its second half
HasNoLinkNullOnly(row) == IsNa(row.Link)

\* line 231: pd.isna(Link) or Link == ""
HasNoLink(row) == IsNa(row.Link) \/ row.Link = <<>>

\* the loop of fill_all_blank_slots moves on to the next row, or ends
NextRow ==
    /\ index' = index + 1
    /\ pc' = IF index = Len(dataframe) THEN "done" ELSE "row"

\* lines 230-233: a row without a Link is skipped, fill_single_blank_slot returns False
skip_row_without_link ==
    /\ pc = "row"
    /\ HasNoLink(dataframe[index])
    /\ op' = "skip_row_without_link"
    /\ before' = dataframe
    /\ outcome' = "False"
    /\ dataframe' = dataframe
    /\ calls' = NoCalls
    /\ stored' = NothingStored
    /\ NextRow
    /\ UNCHANGED <<mapping, url, shape, result>>

\* line 271: if article.text
NewspaperStoresText(row, a) == a.text[2] > 0

\* line 276: if article.publish_date and pd.isna(Date)
NewspaperStoresDate(row, a) == a.publish_date # None /\ IsNa(row.Date)

\* _newspaper_parse that stores the text in the column 'Title'
NewspaperParseIntoTitle(row, a) ==
    IF a.raised THEN row
    ELSE [row EXCEPT
            !.Title = IF NewspaperStoresText(row, a) THEN "text of the article" ELSE @,
            !.Date = IF NewspaperStoresDate(row, a) THEN a.publish_date ELSE @]

\* lines 258-279: the row after _newspaper_parse got answer a
NewspaperParse(row, a) ==
    IF a.raised THEN row
    ELSE [row EXCEPT
            !.Tittle_text = IF NewspaperStoresText(row, a) THEN Truncate(a.text) ELSE @,
            !.Date = IF NewspaperStoresDate(row, a) THEN a.publish_date ELSE @]

\* line 236, for a row with a Link
newspaper_parse ==
    /\ pc = "row"
    /\ ~HasNoLink(dataframe[index])
    /\ \E a \in NewspaperAnswers :
          /\ dataframe' = [dataframe EXCEPT ![index] = NewspaperParse(@, a)]
          /\ stored' = [text |-> ~a.raised /\ NewspaperStoresText(dataframe[index], a),
                        date |-> ~a.raised /\ NewspaperStoresDate(dataframe[index], a),
                        failed |-> IF a.raised THEN {"newspaper"} ELSE {}]
          /\ outcome' = IF a.raised THEN "False" ELSE "True"
    /\ op' = "newspaper_parse"
    /\ before' = dataframe
    /\ calls' = [NoCalls EXCEPT !.newspaper = 1]
    /\ pc' = "requests"
    /\ UNCHANGED <<mapping, url, shape, result, index>>

\* line 300: if pd.isna(Date)
WantsDate(row) == IsNa(row.Date)

\* _requests_parse that fetches the page whether or not the row has a text
WantsTextAlways(row) == TRUE

\* line 305: if pd.isna('Tittle text')
WantsText(row) == IsNa(row.Tittle_text)

\* lines 333-345: the row after _find_single_date got answer a
FindSingleDate(row, a) ==
    IF ~a.raised /\ a.found_date # None THEN [row EXCEPT !.Date = a.found_date] ELSE row

\* the fetch that stores an empty text when requests.get raised
RequestsTextEmptyOnFailure(row, a) ==
    [row EXCEPT !.Tittle_text =
        IF a.raised THEN <<"requests", 0>> ELSE Truncate(a.clean_article_text)]

\* lines 307-318: the row after the page text was fetched with answer a
RequestsText(row, a) ==
    IF a.raised THEN row ELSE [row EXCEPT !.Tittle_text = Truncate(a.clean_article_text)]

\* line 237: _requests_parse, with _find_single_date inside it
requests_parse ==
    /\ pc = "requests"
    /\ \E d \in FindDateAnswers, g \in RequestsAnswers :
          LET row0 == dataframe[index]
              askDate == WantsDate(row0)
              row1 == IF askDate THEN FindSingleDate(row0, d) ELSE row0
              askText == WantsText(row1)
              row2 == IF askText THEN RequestsText(row1, g) ELSE row1
          IN  /\ dataframe' = [dataframe EXCEPT ![index] = row2]
              /\ calls' = [calls EXCEPT !.find_date = @ + (IF askDate THEN 1 ELSE 0),
                                        !.get = @ + (IF askText THEN 1 ELSE 0)]
              /\ outcome' = IF askText /\ g.raised THEN "False" ELSE "True"
              /\ stored' = [stored EXCEPT !.failed =
                                @ \cup (IF askDate /\ d.raised THEN {"find_date"} ELSE {})
                                  \cup (IF askText /\ g.raised THEN {"get"} ELSE {})]
    /\ op' = "requests_parse"
    /\ before' = dataframe
    /\ pc' = "normalize"
    /\ UNCHANGED <<mapping, url, shape, result, index>>

\* normalization that leaves the date as it is
NormalizeDateNoSlice(date) == IF ~IsNa(date) THEN Str(date) ELSE date

\* lines 239-240: if pd.notna(Date): Date = str(Date)[:10]
NormalizeDate(date) == IF ~IsNa(date) THEN Take(Str(date), date_slice) ELSE date

\* lines 239-242: the end of fill_single_blank_slot, which returns self
normalize_date ==
    /\ pc = "normalize"
    /\ op' = "normalize_date"
    /\ before' = dataframe
    /\ outcome' = "self"
    /\ dataframe' = [dataframe EXCEPT ![index].Date = NormalizeDate(@)]
    /\ NextRow
    /\ UNCHANGED <<mapping, url, shape, result, calls, stored>>

\* rows enrichment starts from: with and without a Link, a Date, a body text
\* (a table read back from an earlier export has the 'Tittle text' column)
Text_csv == <<"csv", 20>>

\* an article:published_time that is not ISO 8601
Date_Text == <<"M","a","y"," ","1",","," ","2","0","2","3"," ","1","0",":","0","0">>

EnrichRow(link, date, text) == Row("Oleh Nivievskyi", "Grain exports", date, "example.com", link, text)

RowsWithoutTextColumn ==
    { EnrichRow(Link_a, NaN, NoColumn),
      EnrichRow(Link_a, Date_ISO, NoColumn),
      EnrichRow(Link_a, <<>>, NoColumn),
      EnrichRow(Link_a, Date_Text, NoColumn),
      EnrichRow(NaN, Date_ISO, NoColumn),
      EnrichRow(<<>>, NaN, NoColumn) }

RowsWithTextColumn ==
    { EnrichRow(Link_a, NaN, None),
      EnrichRow(Link_a, Date_ISO, None),
      EnrichRow(Link_a, <<>>, None),
      EnrichRow(Link_a, Date_Text, None),
      EnrichRow(NaN, Date_ISO, None),
      EnrichRow(<<>>, NaN, None),
      EnrichRow(Link_a, NaN, Text_csv),
      EnrichRow(Link_a, Date_ISO, Text_csv) }

InitEnrich ==
    /\ dataframe \in TablesUpTo(RowsWithoutTextColumn, MaxEnrichRows)
                     \cup TablesUpTo(RowsWithTextColumn, MaxEnrichRows)
    /\ op = "none"
    /\ before = dataframe
    /\ outcome = "none"
    /\ mapping = REWRITE_NAMES
    /\ url = None
    /\ shape = [kind |-> "none"]
    /\ result = "none"
    /\ index = 0
    /\ pc = "idle"
    /\ calls = NoCalls
    /\ stored = NothingStored

NextEnrich ==
    \/ fill_all_blank_slots
    \/ skip_row_without_link
    \/ newspaper_parse
    \/ requests_parse
    \/ normalize_date

SpecEnrich == InitEnrich /\ [][NextEnrich]_vars

--------------------------------------------------------------------------
\* Sorting: sort_by_column and sort_by_multiple_columns, with
\* DataFrame.sort_values as far as they use it (a column name or a list of
\* them, ascending a bool, na_position 'last', kind 'quicksort')

\* the printable ASCII characters in code order, without the grave accent: str
\* comparison is by code
Ascii ==
    <<" ","!","\"","#","$","%","&","'","(",")","*","+",",","-",".","/">> \o
    <<"0","1","2","3","4","5","6","7","8","9",":",";","<","=",">","?">> \o
    <<"@","A","B","C","D","E","F","G","H","I","J","K","L","M","N","O">> \o
    <<"P","Q","R","S","T","U","V","W","X","Y","Z","[","\\","]","^","_">> \o
    <<"a","b","c","d","e","f","g","h","i","j","k","l","m","n","o">> \o
    <<"p","q","r","s","t","u","v","w","x","y","z","{","|","}","~">>
CodeOf == [c \in Range(Ascii) |-> CHOOSE i \in 1..Len(Ascii) : Ascii[i] = c]

\* a < b for two str
StrLess(a, b) ==
    \E k \in 1..(Min(Len(a), Len(b)) + 1) :
        /\ SubSeq(a, 1, k - 1) = SubSeq(b, 1, k - 1)
        /\ IF k > Len(a) THEN k <= Len(b)
           ELSE k <= Len(b) /\ CodeOf[a[k]] < CodeOf[b[k]]

\* self.dataframe.columns
ColumnsOf(t) ==
    {"Person", "Title", "Date", "Source", "Link"}
        \cup (IF \E i \in 1..Len(t) : t[i].Tittle_text # NoColumn
              THEN {"Tittle text"} ELSE {})

\* row[name]
Column(row, name) ==
    CASE name = "Person" -> row.Person
      [] name = "Title" -> row.Title
      [] name = "Date" -> row.Date
      [] name = "Source" -> row.Source
      [] name = "Link" -> row.Link
      [] name = "Tittle text" -> row.Tittle_text

Perms(n) == {p \in [1..n -> 1..n] : \A i, j \in 1..n : i # j => p[i] # p[j]}

\* x sorts before y in the requested direction
Precedes(x, y, ascending) == IF ascending THEN StrLess(x, y) ELSE StrLess(y, x)

\* sort_values(by=name): nargsort. The rows with a value come first, in the
\* requested order, rows with equal values in any order (quicksort is not
\* stable); the rows without a value follow in their old order.
SortedByOne(t, name, ascending) ==
    LET n == Len(t)
        key(i) == Column(t[i], name)
        inOrder(a, b) ==
            IF IsNa(key(a)) THEN IsNa(key(b)) /\ a < b
            ELSE IsNa(key(b)) \/ ~Precedes(key(b), key(a), ascending)
    IN  { [j \in 1..n |-> t[p[j]]] :
            p \in {q \in Perms(n) : \A j, k \in 1..n : j < k => inOrder(q[j], q[k])} }

\* row ra sorts strictly before row rb on the columns of by, column by column,
\* a missing value after every value
RECURSIVE RowBefore(_, _, _, _)
RowBefore(ra, rb, by, ascending) ==
    IF by = <<>> THEN FALSE
    ELSE LET x == Column(ra, Head(by))
             y == Column(rb, Head(by))
         IN  IF x = y \/ (IsNa(x) /\ IsNa(y)) THEN RowBefore(ra, rb, Tail(by), ascending)
             ELSE IF IsNa(x) THEN FALSE
             ELSE IF IsNa(y) THEN TRUE
             ELSE Precedes(x, y, ascending)

\* sort_values(by=[two or more names]): lexsort_indexer, which is stable
SortedByMany(t, by, ascending) ==
    LET n == Len(t)
        inOrder(a, b) ==
            /\ ~RowBefore(t[b], t[a], by, ascending)
            /\ RowBefore(t[a], t[b], by, ascending) \/ a < b
    IN  { [j \in 1..n |-> t[p[j]]] :
            p \in {q \in Perms(n) : \A j, k \in 1..n : j < k => inOrder(q[j], q[k])} }

\* DataFrame.sort_values(by, ascending): the tables it may return
SortValues(t, by, ascending) ==
    IF Len(by) > 1 THEN SortedByMany(t, by, ascending)
    ELSE SortedByOne(t, by[1], ascending)

\* the column test that looks at the first name only
ColumnMissingFirstOnly(t, columns) == columns[1] \notin ColumnsOf(t)

\* lines 42 and 71-72: some name is not in self.dataframe.columns
ColumnMissing(t, columns) == \E k \in 1..Len(columns) : columns[k] \notin ColumnsOf(t)

\* lines 42-49 and 71-77 for the column names by; sort_values raises
\* KeyError for a name that is no column
SortCall(by, ascending) ==
    /\ before' = dataframe
    /\ \/ /\ ColumnMissing(dataframe, by)
          /\ \E inplace \in BOOLEAN :
                shape' = [by |-> by, ascending |-> ascending, inplace |-> inplace]
          /\ outcome' = "ValueError" /\ dataframe' = dataframe /\ result' = "none"
       \/ /\ ~ColumnMissing(dataframe, by)
          /\ ~(Range(by) \subseteq ColumnsOf(dataframe))
          /\ \E inplace \in BOOLEAN :
                shape' = [by |-> by, ascending |-> ascending, inplace |-> inplace]
          /\ outcome' = "KeyError" /\ dataframe' = dataframe /\ result' = "none"
       \/ /\ ~ColumnMissing(dataframe, by)
          /\ Range(by) \subseteq ColumnsOf(dataframe)
          /\ \E sorted \in SortValues(dataframe, by, ascending) :
                \/ /\ shape' = [by |-> by, ascending |-> ascending, inplace |-> TRUE]
                   /\ outcome' = "self" /\ dataframe' = sorted /\ result' = "none"
                \/ /\ shape' = [by |-> by, ascending |-> ascending, inplace |-> FALSE]
                   /\ outcome' = "DataFrame" /\ dataframe' = dataframe /\ result' = sorted
    /\ UNCHANGED <<mapping, url, index, pc, calls, stored>>

\* the column names sort_by_column is called with: a column of the table,
\* one that a raw export does not have, one that no table has
SortColumnNames == {"Date", "Tittle text", "Published"}

\* the lists of column names sort_by_multiple_columns is called with
SortColumnLists ==
    { <<"Date", "Link">>, <<"Link">>, <<"Date", "Published">>, <<"Tittle text", "Link">> }

sort_by_column ==
    /\ op' = "sort_by_column"
    /\ \E column_name \in SortColumnNames, ascending \in BOOLEAN :
          SortCall(<<column_name>>, ascending)

sort_by_multiple_columns ==
    /\ op' = "sort_by_multiple_columns"
    /\ \E columns \in SortColumnLists, ascending \in BOOLEAN :
          SortCall(columns, ascending)

--------------------------------------------------------------------------
\* remove_by_links: Series.str.contains(pattern, na=False) takes pattern as a
\* regular expression (regex=True is the default). The patterns here hold no
\* metacharacter other than "|", "." and "?".

\* sep.join(parts)
RECURSIVE Join(_, _)
Join(parts, sep) ==
    IF parts = <<>> THEN <<>>
    ELSE IF Len(parts) = 1 THEN parts[1]
    ELSE parts[1] \o sep \o Join(Tail(parts), sep)

\* the alternatives of a pattern: the pieces between the "|"
Alternatives(pattern) ==
    LET IsBar(i) == pattern[i] = "|"
        bars == SelectSeq([i \in 1..Len(pattern) |-> i], IsBar)
        from(k) == IF k = 1 THEN 1 ELSE bars[k - 1] + 1
        to(k) == IF k = Len(bars) + 1 THEN Len(pattern) ELSE bars[k] - 1
    IN  [k \in 1..(Len(bars) + 1) |-> SubSeq(pattern, from(k), to(k))]

\* the atoms of one alternative: a character, "." for any character, each
\* optional when "?" follows it
Atoms(alt) ==
    LET IsAtom(a) == a.char # "?"
    IN  SelectSeq([i \in 1..Len(alt) |->
                      [char |-> alt[i], any |-> alt[i] = ".",
                       optional |-> i < Len(alt) /\ alt[i + 1] = "?"]],
                  IsAtom)

\* re.compile(pattern): re.error (nothing to repeat) when an alternative
\* starts with "?", else the atoms of each alternative
Compile(pattern) ==
    LET alts == Alternatives(pattern)
    IN  IF \E k \in 1..Len(alts) : alts[k] # <<>> /\ alts[k][1] = "?"
        THEN [error |-> TRUE, alts |-> <<>>]
        ELSE [error |-> FALSE, alts |-> [k \in 1..Len(alts) |-> Atoms(alts[k])]]

\* the atoms from the i-th on match s from its j-th character on
RECURSIVE MatchFrom(_, _, _, _)
MatchFrom(atoms, i, s, j) ==
    \/ i > Len(atoms)
    \/ /\ i <= Len(atoms)
       /\ \/ atoms[i].optional /\ MatchFrom(atoms, i + 1, s, j)
          \/ /\ j <= Len(s)
             /\ atoms[i].any \/ atoms[i].char = s[j]
             /\ MatchFrom(atoms, i + 1, s, j + 1)

\* regex.search(s): some alternative matches somewhere in s
Search(regex, s) ==
    \E k \in 1..Len(regex.alts) :
        LET atoms == regex.alts[k]
        IN  \/ atoms = <<>>
            \/ \E from \in 1..Len(s) :
                  /\ atoms[1].optional \/ atoms[1].any \/ atoms[1].char = s[from]
                  /\ MatchFrom(atoms, 1, s, from)
            \/ MatchFrom(atoms, 1, s, Len(s) + 1)

\* configuration.LINKS_TO_REMOVE
LINKS_TO_REMOVE ==
    << <<".","p","d","f">>,
       <<".","r","u">>,
       <<"h","t","t","p","s",":","/","/","w","w","w",".","b","b","c",".","c","o","m","/","u","k","r","a","i","n","i","a","n","/","n","e","w","s","-","6","2","0","6","2","7","5","6">>,
       <<"h","t","t","p","s",":","/","/","w","w","w",".","u","k","r",".","n","e","t","/","n","e","w","s","/","d","e","t","a","i","l","s","/","f","o","t","o","r","e","p","o","r","t","a","z","h","/","1","0","7","0","9","5","3","6","0",".","h","t","m","l">>,
       <<"h","t","t","p","s",":","/","/","v","o","x","u","k","r","a","i","n","e",".","o","r","g","/","a","u","t","h","o","r","s","/","o","l","e","g","-","n","i","v","y","e","v","s","k","i","j">>,
       <<"h","t","t","p","s",":","/","/","w","w","w",".","y","o","u","t","u","b","e",".","c","o","m","/","w","a","t","c","h","?","v","=","p","h","1","D","K","P","O","f","9","_","s">>,
       <<"h","t","t","p","s",":","/","/","w","w","w",".","i","f","p","r","i",".","o","r","g","/","n","e","w","s","l","e","t","t","e","r","/","i","f","p","r","i","-","i","n","s","i","g","h","t","s","-","a","p","r","i","l","-","2","0","2","3","/">>,
       <<"h","t","t","p","s",":","/","/","f","o","r","b","e","s",".","u","a","/","l","i","f","e","s","t","y","l","e","/","1","5","-","l","i","d","e","r","o","k","-","v","-","u","k","r","a","i","n","s","k","i","y","-","n","a","u","t","s","i","-","s","p","i","s","o","k","-","f","o","r","b","e","s","-","1","3","0","2","2","0","2","4","-","1","9","1","3","2">>,
       <<"h","t","t","p","s",":","/","/","w","w","w",".","i","a","m","o",".","d","e","/","e","n","/","n","e","w","s","/","n","e","w","s","/","a","r","t","i","c","l","e","/","i","a","m","o","-","b","e","i","-","d","e","m","-","1","8","-","e","a","a","e","-","k","o","n","g","r","e","s","s","-","f","o","o","d","-","s","y","s","t","e","m","-","t","r","a","n","s","f","o","r","m","a","t","i","o","n","-","i","n","-","c","h","a","l","l","e","n","g","i","n","g","-","t","i","m","e","s","-","i","n","-","b","o","n","n">>,
       <<"h","t","t","p","s",":","/","/","w","w","w",".","i","a","m","o",".","d","e","/","e","n","/","i","n","s","t","i","t","u","t","e","/","s","t","a","f","f","/","d","e","t","a","i","l","s","/","p","e","r","e","k","h","o","z","h","u","k","/","p","u","b","l","i","c","a","t","i","o","n","s">>,
       <<"h","t","t","p","s",":","/","/","v","o","x","u","k","r","a","i","n","e",".","o","r","g","/","a","u","t","h","o","r","s","/","k","r","i","s","t","i","n","a","-","k","o","v","a","l","o","v","a">>,
       <<"h","t","t","p","s",":","/","/","v","o","x","u","k","r","a","i","n","e",".","o","r","g","/","p","r","o","m","o","v","c","h","a","t","y","-","c","h","y","-","m","a","n","i","p","u","l","y","u","v","a","t","y","-","y","a","k","-","d","e","p","u","t","a","t","y","-","p","o","y","a","s","n","y","l","y","-","s","v","o","y","u","-","p","i","d","t","r","y","m","k","u","-","z","a","k","o","n","o","p","r","o","y","e","k","t","u","-","1","2","4","1","4">>,
       <<"h","t","t","p","s",":","/","/","v","o","x","u","k","r","a","i","n","e",".","o","r","g","/","a","u","t","h","o","r","s","/","v","l","a","d","y","s","l","a","v","-","o","r","d","e","h","a">>,
       <<"h","t","t","p","s",":","/","/","v","o","x","u","k","r","a","i","n","e",".","o","r","g","/","a","u","t","h","o","r","s","/","e","l","l","i","n","a","-","y","u","r","c","h","e","n","k","o">>,
       <<"h","t","t","p","s",":","/","/","w","w","w",".","y","o","u","t","u","b","e",".","c","o","m","/","@","%","D","0","%","9","4","%","D","1","%","8","3","%","D","1","%","8","8","%","D","0","%","B","A","%","D","0","%","B","E","%","D","0","%","9","4","%","D","0","%","B","C","%","D","0","%","B","8","%","D","1","%","8","2","%","D","1","%","8","0","%","D","0","%","B","E">>,
       <<"h","t","t","p","s",":","/","/","f","r","e","e","p","o","l","i","c","y","b","r","i","e","f","s",".","o","r","g","/","s","p","e","a","k","e","r","_","c","a","t","e","g","o","r","y","/","a","u","t","h","o","r","/">>,
       <<"h","t","t","p","s",":","/","/","w","w","w",".","y","o","u","t","u","b","e",".","c","o","m","/","w","a","t","c","h","?","v","=","g","P","H","q","A","7","1","B","F","W","c">>,
       <<"h","t","t","p","s",":","/","/","w","w","w",".","y","o","u","t","u","b","e",".","c","o","m","/","w","a","t","c","h","?","v","=","4","h","1","n","q","w","b","V","1","v","0">>,
       <<"h","t","t","p","s",":","/","/","w","w","w",".","y","o","u","t","u","b","e",".","c","o","m","/","w","a","t","c","h","?","v","=","k","t","0","U","1","x","i","l","R","A","I">>,
       <<"h","t","t","p","s",":","/","/","w","w","w",".","o","e","i",".","f","u","-","b","e","r","l","i","n",".","d","e","/","e","n","/","w","i","r","t","s","c","h","a","f","t","/","U","K","R","A","I","N","E","/","P","r","o","f","i","l","e","/","O","l","e","g","-","N","i","v","i","e","v","s","k","y","i",".","h","t","m","l">> >>

\* the lists remove_by_links is called with: the configured one, one entry
\* of it, no entry, and a query-string fragment
LinkLists == {LINKS_TO_REMOVE, <<<<".","p","d","f">>>>, <<>>, <<<<"?","p","a","g","e","=">>>>}

\* '|'.join(links), compiled (computed once for each list)
PatternOf == [links \in LinkLists |-> Compile(Join(links, <<"|">>))]

\* ~Link.str.contains(pattern, na=False): the rows without a match; a Link
\* that is missing matches nothing
RowsWithoutMatch(t, regex) ==
    SelectRows(t, {i \in 1..Len(t) : IsNa(t[i].Link) \/ ~Search(regex, t[i].Link)})

\* the .str accessor raises AttributeError on a column that holds no str:
\* the dtype of a Link column without a single link is float64 when the table
\* was read from a file and object when it was built in memory
StrAccessorMayRaise(t) == Len(t) > 0 /\ \A i \in 1..Len(t) : IsNa(t[i].Link)

\* lines 96-103
remove_by_links ==
    /\ op' = "remove_by_links"
    /\ before' = dataframe
    /\ \E links \in LinkLists :
          \/ /\ StrAccessorMayRaise(dataframe)
             /\ \E inplace \in BOOLEAN : shape' = [links |-> links, inplace |-> inplace]
             /\ outcome' = "AttributeError" /\ dataframe' = dataframe /\ result' = "none"
          \/ /\ PatternOf[links].error
             /\ \E inplace \in BOOLEAN : shape' = [links |-> links, inplace |-> inplace]
             /\ outcome' = "re.error" /\ dataframe' = dataframe /\ result' = "none"
          \/ /\ ~PatternOf[links].error
             /\ \E filtered_df \in {RowsWithoutMatch(dataframe, PatternOf[links])} :
                   \/ /\ shape' = [links |-> links, inplace |-> TRUE]
                      /\ outcome' = "self" /\ dataframe' = filtered_df /\ result' = "none"
                   \/ /\ shape' = [links |-> links, inplace |-> FALSE]
                      /\ outcome' = "DataFrame" /\ dataframe' = dataframe
                      /\ result' = filtered_df
    /\ UNCHANGED <<mapping, url, index, pc, calls, stored>>

--------------------------------------------------------------------------
\* Tables the sorting and link-removal methods are run on

Link_pdf == <<"h","t","t","p","s",":","/","/","e","x","a","m","p","l","e",".","c","o","m","/","r","e","p","o","r","t",".","p","d","f">>
Link_youtube == <<"h","t","t","p","s",":","/","/","w","w","w",".","y","o","u","t","u","b","e",".","c","o","m","/","w","a","t","c","h","?","v","=","p","h","1","D","K","P","O","f","9","_","s">>
Link_vox == <<"h","t","t","p","s",":","/","/","v","o","x","u","k","r","a","i","n","e",".","o","r","g","/","a","u","t","h","o","r","s","/","o","l","e","g","-","n","i","v","y","e","v","s","k","i","j">>
Link_drugs == <<"h","t","t","p","s",":","/","/","e","x","a","m","p","l","e",".","c","o","m","/","d","r","u","g","s">>

\* rows of a raw export: a link to a .pdf, two links LINKS_TO_REMOVE lists,
\* two links it does not list, a row without Link; some share their Date
StageRows ==
    { Row("Oleh Nivievskyi", "Report", Date_Day, "example.com", Link_pdf, NoColumn),
      Row("Oleh Nivievskyi", "Video", Date_ISO, "www.youtube.com", Link_youtube, NoColumn),
      Row("Oleh Nivievskyi", "Author", NaN, "voxukraine.org", Link_vox, NoColumn),
      Row("Mariia Bogonos", "Drug prices", Date_Day, "example.com", Link_drugs, NoColumn),
      Row("Oleh Nivievskyi", "Grain exports", Date_ISO, "example.com", Link_a, NoColumn),
      Row("Mariia Bogonos", "No link", NaN, "", NaN, NoColumn) }

\* bound: the longest table these methods are run on
MaxStageRows == 2

InitStages ==
    /\ dataframe \in TablesUpTo(StageRows, MaxStageRows)
    /\ op = "none"
    /\ before = dataframe
    /\ outcome = "none"
    /\ mapping = REWRITE_NAMES
    /\ url = None
    /\ shape = [kind |-> "none"]
    /\ result = "none"
    /\ index = 0
    /\ pc = "idle"
    /\ calls = <<>>
    /\ stored = <<>>

NextStages ==
    \/ sort_by_column
    \/ sort_by_multiple_columns
    \/ remove_by_links

SpecStages == InitStages /\ [][NextStages]_vars

--------------------------------------------------------------------------
\* main.process_and_sort_data: the calls of lines 80-89 one after the other
\* on the table read from the raw export. pc is the call that comes next;
\* fill_all_blank_slots runs as the enrichment steps above, from pc = "idle"
\* to pc = "done". An exception that escapes a call ends the run
\* (pc = "raised"). DataSorting has no method apply_ai_filter, so the call of
\* line 89 raises AttributeError and lines 92-93 are never reached.

\* line 80, first call
run_remove_duplicates ==
    /\ pc = "remove_duplicates"
    /\ op' = "remove_duplicates"
    /\ before' = dataframe
    /\ outcome' = "self"
    /\ dataframe' = DropDuplicates(dataframe)
    /\ pc' = "rename_person"
    /\ UNCHANGED <<mapping, url, shape, result, index, calls, stored>>

\* line 80, second call
run_rename_person ==
    /\ pc = "rename_person"
    /\ op' = "rename_person"
    /\ before' = dataframe
    /\ outcome' = "self"
    /\ dataframe' = RenamePersons(dataframe, mapping)
    /\ pc' = "remove_by_links"
    /\ UNCHANGED <<mapping, url, shape, result, index, calls, stored>>

\* line 81: remove_by_links(links=LINKS_TO_REMOVE), in place. The table was
\* read by pd.read_csv (line 76), so a Link column without a link is float64
\* and the .str accessor raises.
run_remove_by_links ==
    /\ pc = "remove_by_links"
    /\ op' = "remove_by_links"
    /\ before' = dataframe
    /\ shape' = [links |-> LINKS_TO_REMOVE, inplace |-> TRUE]
    /\ IF StrAccessorMayRaise(dataframe)
       THEN outcome' = "AttributeError" /\ dataframe' = dataframe /\ pc' = "raised"
       ELSE /\ outcome' = "self"
            /\ dataframe' = RowsWithoutMatch(dataframe, PatternOf[LINKS_TO_REMOVE])
            /\ pc' = "apply_url_filter"
    /\ UNCHANGED <<mapping, url, result, index, calls, stored>>

\* line 84
run_apply_url_filter ==
    /\ pc = "apply_url_filter"
    /\ op' = "apply_url_filter"
    /\ before' = dataframe
    /\ LET mask == url_filter_mask(dataframe)
       IN  IF \E i \in 1..Len(mask) : mask[i] = "ValueError"
           THEN outcome' = "ValueError" /\ dataframe' = dataframe /\ pc' = "raised"
           ELSE /\ outcome' = "self"
                /\ dataframe' = SelectRows(dataframe, {i \in 1..Len(mask) : mask[i] = "True"})
                /\ pc' = "idle"
    /\ UNCHANGED <<mapping, url, shape, result, index, calls, stored>>

\* line 89: sorter.apply_ai_filter(), an attribute DataSorting does not have
run_apply_ai_filter ==
    /\ pc = "done"
    /\ op' = "apply_ai_filter"
    /\ before' = dataframe
    /\ outcome' = "AttributeError"
    /\ dataframe' = dataframe
    /\ pc' = "raised"
    /\ UNCHANGED <<mapping, url, shape, result, index, calls, stored>>

\* bound: the longest raw export the run is started on
MaxPipelineRows == 3

Link_b == <<"h","t","t","p","s",":","/","/","n","e","w","s",".","e","x","a","m","p","l","e",".","o","r","g","/","b">>

\* rows of the raw export: a blacklisted host, two rows with one Link, a
\* second clean Link, a .pdf, a row without Link, a Link urlparse rejects
PipelineRows ==
    { Row("Oleh Nivievskyi", "KSE", Date_Day, "kse.ua", Link_kse, NoColumn),
      Row("Oleg Nivievskyi", "Grain exports", Date_ISO, "example.com", Link_a, NoColumn),
      Row("Oleg Nivievskyi", "Grain exports, again", NaN, "example.com", Link_a, NoColumn),
      Row("[uk] Mariia Bogonos", "Harvest", NaN, "news.example.org", Link_b, NoColumn),
      Row("Mariia Bogonos", "Report", Date_Day, "example.com", Link_pdf, NoColumn),
      Row("Mariia Bogonos", "No link", NaN, "", NaN, NoColumn),
      Row("Oleg Nivievskyi", "Broken link", NaN, "", Link_malformed, NoColumn) }

InitPipeline ==
    /\ dataframe \in TablesUpTo(PipelineRows, MaxPipelineRows)
    /\ op = "none"
    /\ before = dataframe
    /\ outcome = "none"
    /\ mapping = REWRITE_NAMES
    /\ url = None
    /\ shape = [kind |-> "none"]
    /\ result = "none"
    /\ index = 0
    /\ pc = "remove_duplicates"
    /\ calls = NoCalls
    /\ stored = NothingStored

\* (no row without a Link is left after apply_url_filter, which drops every
\* Link that is no str, so the skip of lines 231-233 is not among the steps)
NextPipeline ==
    \/ run_remove_duplicates
    \/ run_rename_person
    \/ run_remove_by_links
    \/ run_apply_url_filter
    \/ fill_all_blank_slots
    \/ newspaper_parse
    \/ requests_parse
    \/ normalize_date
    \/ run_apply_ai_filter

SpecPipeline == InitPipeline /\ [][NextPipeline]_vars

--------------------------------------------------------------------------
\* llm.LLM.is_article, called with the body text of a row. shape is what
\* client.chat.completions.create did; result is what is_article returned,
\* or the exception that escaped it.

Whitespace == {" ", "\t", "\n"}

\* s.strip()
Strip(s) ==
    LET inked == {i \in 1..Len(s) : s[i] \notin Whitespace}
    IN  IF inked = {} THEN <<>>
        ELSE SubSeq(s, CHOOSE i \in inked : \A j \in inked : i <= j,
                       CHOOSE i \in inked : \A j \in inked : i >= j)

\* s with its first character in upper case
Capitalized(s) == IF s = <<>> THEN s ELSE <<UpperChar(s[1])>> \o Tail(s)

\* answers of the model, as the API returns them in message.content
AnswerWords == { <<"y","e","s">>, <<"n","o">>, <<"y","e","s",".">>, <<"y","e","s",","," ","i","t"," ","i","s">>, <<>>}
AnswerContents ==
    UNION { {w, Capitalized(w), Upper(w), <<" ">> \o Capitalized(w) \o <<"\n">>} :
            w \in AnswerWords }

\* what the call of lines 43-51 can do: raise (a timeout, an API error),
\* return no choice, a choice without content, or a content
CompletionAnswers ==
    [kind : {"raises"}, error : {"APITimeoutError", "APIError"}]
    \cup {[kind |-> "no choices"], [kind |-> "no content"]}
    \cup [kind : {"content"}, content : AnswerContents]

\* the comparison with the answer as it came, case and all
IsYesCaseSensitive(answer) == answer = <<"y","e","s">>

\* line 66: answer.lower() == "yes"
IsYes(answer) == Lower(answer) = <<"y","e","s">>

\* lines 64-66 with lines 43-52: nothing is caught; choices[0] of an empty
\* list raises IndexError, None.strip() raises AttributeError
is_article(answer) ==
    CASE answer.kind = "raises" -> answer.error
      [] answer.kind = "no choices" -> "IndexError"
      [] answer.kind = "no content" -> "AttributeError"
      [] answer.kind = "content" ->
            IF IsYes(Strip(answer.content)) THEN "True" ELSE "False"

call_is_article ==
    /\ result = "pending"
    /\ Len(dataframe) = 1 /\ ~IsNa(dataframe[1].Tittle_text)
    /\ op' = "is_article"
    /\ \E answer \in CompletionAnswers :
          /\ shape' = answer
          /\ result' = is_article(answer)
    /\ UNCHANGED <<dataframe, before, outcome, mapping, url, index, pc, calls, stored>>

\* rows with a body text, as enrichment leaves them
ClassifierRows ==
    { EnrichRow(Link_a, Date_Day, text) :
        text \in {Text_csv, <<"newspaper", 20>>, <<"newspaper", max_text_save_len>>,
                  <<"requests", 0>>, <<"requests", max_text_save_len>>} }

InitClassifier ==
    /\ dataframe \in TablesUpTo(ClassifierRows, 1)
    /\ op = "none"
    /\ before = dataframe
    /\ outcome = "none"
    /\ mapping = REWRITE_NAMES
    /\ url = None
    /\ shape = [kind |-> "none"]
    /\ result = "pending"
    /\ index = 0
    /\ pc = "idle"
    /\ calls = NoCalls
    /\ stored = NothingStored

NextClassifier == call_is_article

SpecClassifier == InitClassifier /\ [][NextClassifier]_vars

--------------------------------------------------------------------------
\* google_search_service.GoogleSearchService.search. shape holds the
\* arguments (max_results after line 59), index is start_index, result is
\* all_results, calls counts the requests sent, stored is search_params of
\* the last request and outcome what the last request did.

\* line 59: min(max_results, 100)
api_limit == 100

\* lines 61 and 69: the step of start_index, the largest 'num'
page_size == 10

\* the values search is called with for max_results
MaxResultsArgs == {0, 1, 5, 10, 15, 25, 100, 150}

\* the item counts of one page: the service returns no more than 'num' items
ItemCounts(num) == {n \in {0, 3, num} : n <= num}

\* what cse().list(**search_params).execute() can do: raise HttpError or
\* another exception, return a result without 'items', or with items
PageAnswers(num) ==
    {[kind |-> "HttpError"], [kind |-> "Exception"], [kind |-> "no items"]}
    \cup [kind : {"items"}, n : ItemCounts(num)]

\* result['items'] of the page asked from start: n items
Items(start, n) == [k \in 1..n |-> <<start, k>>]

\* lines 55-59, and the first test of the loop of line 61
search ==
    /\ pc = "idle"
    /\ op' = "search"
    /\ \E max_results \in MaxResultsArgs, sort_by_date \in BOOLEAN :
          /\ shape' = [asked |-> max_results,
                       max_results |-> Min(max_results, api_limit),
                       sort_by_date |-> sort_by_date]
          /\ pc' = IF 1 < Min(max_results, api_limit) + 1 THEN "page" ELSE "loop done"
    /\ result' = <<>>
    /\ index' = 1
    /\ calls' = 0
    /\ UNCHANGED <<dataframe, before, outcome, mapping, url, stored>>

\* range(1, max_results + 1, 10): the loop goes on after start_index
NextPage == index + page_size < shape.max_results + 1

\* lines 62-92: one pass of the loop
request_page ==
    /\ pc = "page"
    /\ op' = "request_page"
    /\ LET num == Min(page_size, shape.max_results - Len(result))
       IN  /\ stored' = IF shape.sort_by_date
                        THEN [start |-> index, num |-> num, sort |-> "date"]
                        ELSE [start |-> index, num |-> num]
           /\ \E answer \in PageAnswers(num) :
                 /\ outcome' = answer.kind
                 /\ IF answer.kind = "items"
                    THEN /\ result' = result \o Items(index, answer.n)
                         /\ IF Len(result') >= shape.max_results \/ ~NextPage
                            THEN pc' = "loop done" /\ index' = index
                            ELSE pc' = "page" /\ index' = index + page_size
                    ELSE /\ result' = result
                         /\ pc' = "loop done" /\ index' = index
    /\ calls' = calls + 1
    /\ UNCHANGED <<dataframe, before, mapping, url, shape>>

\* lines 94-95
return_all_results ==
    /\ pc = "loop done"
    /\ op' = "return all_results"
    /\ pc' = "returned"
    /\ UNCHANGED <<dataframe, before, outcome, mapping, url, shape, result,
                   index, calls, stored>>

InitSearch ==
    /\ dataframe = <<>>
    /\ op = "none"
    /\ before = <<>>
    /\ outcome = "none"
    /\ mapping = <<>>
    /\ url = None
    /\ shape = [kind |-> "none"]
    /\ result = <<>>
    /\ index = 0
    /\ pc = "idle"
    /\ calls = 0
    /\ stored = <<>>

NextSearch == search \/ request_page \/ return_all_results

SpecSearch == InitSearch /\ [][NextSearch]_vars

--------------------------------------------------------------------------
\* The first four calls of main.process_and_sort_data (lines 80-84) on a raw
\* export of three rows: (a) a Link on kse.ua, (b) a Link on example.com with
\* Person "Oleg Nivievskyi", (c) a later row with the Link of (b) and another
\* Title. The other fields and the place of (a) are free.

ScenarioTables ==
    UNION { { <<a, b, c>>, <<b, a, c>>, <<b, c, a>> } :
        a \in { Row(p, "KSE", Date_Day, "kse.ua", Link_kse, NoColumn) :
                  p \in {"Oleh Nivievskyi", "Oleg Nivievskyi", "[uk] Mariia Bogonos"} },
        b \in { Row("Oleg Nivievskyi", "Grain exports", d, "example.com", Link_a, NoColumn) :
                  d \in {Date_ISO, Date_Day, NaN} },
        c \in { Row(p, t, NaN, "example.com", Link_a, NoColumn) :
                  p \in {"Oleg Nivievskyi", "Mariia Bogonos", "[uk] Oleh Nivievskyi"},
                  t \in {"Grain exports, again", "Harvest"} } }

InitScenario ==
    /\ dataframe \in ScenarioTables
    /\ op = "none"
    /\ before = dataframe
    /\ outcome = "none"
    /\ mapping = REWRITE_NAMES
    /\ url = None
    /\ shape = [kind |-> "none"]
    /\ result = "none"
    /\ index = 0
    /\ pc = "remove_duplicates"
    /\ calls = NoCalls
    /\ stored = NothingStored

NextScenario ==
    \/ run_remove_duplicates
    \/ run_rename_person
    \/ run_remove_by_links
    \/ run_apply_url_filter

SpecScenario == InitScenario /\ [][NextScenario]_vars

--------------------------------------------------------------------------
\* Enrichment with the waits of its fetches. Article(url).download() and
\* find_date(url) are given no timeout by the code and run with the ones of
\* their libraries; requests.get(url) of line 308 is called without timeout,
\* and requests then waits for the server without limit: the call may never
\* return.

\* lines 297-308: _requests_parse looks for the date and then waits in
\* requests.get for ever
requests_get_blocks ==
    /\ pc = "requests"
    /\ \E d \in FindDateAnswers :
          LET row0 == dataframe[index]
              askDate == WantsDate(row0)
              row1 == IF askDate THEN FindSingleDate(row0, d) ELSE row0
          IN  /\ WantsText(row1)
              /\ dataframe' = [dataframe EXCEPT ![index] = row1]
              /\ calls' = [calls EXCEPT !.find_date = @ + (IF askDate THEN 1 ELSE 0),
                                        !.get = @ + 1]
              /\ stored' = [stored EXCEPT !.failed =
                                @ \cup (IF askDate /\ d.raised THEN {"find_date"} ELSE {})]
    /\ op' = "requests_parse"
    /\ before' = dataframe
    /\ outcome' = "blocked"
    /\ pc' = "blocked"
    /\ UNCHANGED <<mapping, url, shape, result, index>>

NextEnrichLive == NextEnrich \/ requests_get_blocks

\* the interpreter runs the next statement as soon as the last one returned
SpecEnrichLive == InitEnrich /\ [][NextEnrichLive]_vars /\ WF_vars(NextEnrichLive)

--------------------------------------------------------------------------
\* Claims about _check_relevance and apply_url_filter

\* h equals e, is a subdomain of e, or starts with e + "."
Aligned(h, e) ==
    \/ h = e
    \/ (Len(h) > Len(e) /\ SubSeq(h, Len(h) - Len(e), Len(h)) = <<".">> \o e)
    \/ (Len(h) > Len(e) /\ SubSeq(h, 1, Len(e) + 1) = e \o <<".">>)

AlignedWithSomeEntry(h) ==
    \E k \in 1..Len(BLACKLISTED_DOMAINS) : Aligned(h, BLACKLISTED_DOMAINS[k])

HasStopWord(u) == \E k \in 1..Len(URL_STOP_WORDS) : Contains(Lower(u), URL_STOP_WORDS[k])

Called == result # "pending"

GluedToEntry == shape.kind \in {"glued_left", "glued_right"}

\* C3 as stated: a host that merely contains an entry d, unaligned with d, is
\* not rejected by the domain test, so without a stop-word the URL is relevant.
C3_AsStated ==
    (Called /\ GluedToEntry /\ ~HasStopWord(url)) => result = "True"

\* C3, amended: a host that merely contains an entry d and is aligned with no
\* entry of the blacklist passes the domain test; without a stop-word in the
\* URL the verdict is True.
C3_UnalignedHostsPass ==
    (Called /\ GluedToEntry /\ ~AlignedWithSomeEntry(HostOf(shape)) /\ ~HasStopWord(url))
        => result = "True"

C3_Witness ==
    /\ Called /\ shape.kind = "glued_left" /\ shape.www /\ shape.upper
    /\ ~AlignedWithSomeEntry(HostOf(shape)) /\ ~HasStopWord(url)
    /\ result = "True"

\* C4 as stated: a non-string, and a string without a parsable network
\* location (empty, scheme-less, malformed), is irrelevant and nothing is raised.
C4_FailsClosed ==
    (Called /\ shape.kind \in {"nonstr", "empty", "noscheme", "malformed"})
        => result = "False"

\* what C4 says of strings fails in each of these ways
C4_EmptyStringAccepted == Called /\ shape.kind = "empty" /\ result = "True"
C4_MalformedRaises == Called /\ shape.kind = "malformed" /\ result = "ValueError"
C4_NonStringsRejected == (Called /\ shape.kind = "nonstr") => result = "False"
--------------------------------------------------------------------------
\* Claims about remove_duplicates, rename_person and apply_url_filter

\* a is b with some rows deleted (the remaining rows in b's order)
RECURSIVE IsSubTable(_, _)
IsSubTable(a, b) ==
    IF a = <<>> THEN TRUE
    ELSE IF b = <<>> THEN FALSE
    ELSE IF Head(a) = Head(b) THEN IsSubTable(Tail(a), Tail(b))
    ELSE IsSubTable(a, Tail(b))

\* how many rows of t equal r
Count(t, r) == Cardinality({i \in 1..Len(t) : t[i] = r})

\* the first row of t with Link l
FirstWithLink(t, l) ==
    t[CHOOSE i \in 1..Len(t) : t[i].Link = l /\ \A j \in 1..(i - 1) : t[j].Link # l]

\* C1: after remove_duplicates the table is the old table with rows deleted
\* (order kept), no two rows share a Link, and each Link of the old table is
\* still there on the first row that had it.
C1_FirstRowPerLinkSurvives ==
    op = "remove_duplicates" =>
        /\ IsSubTable(dataframe, before)
        /\ \A i, j \in 1..Len(dataframe) : i # j => dataframe[i].Link # dataframe[j].Link
        /\ \A i \in 1..Len(before) :
              \E k \in 1..Len(dataframe) :
                  dataframe[k] = FirstWithLink(before, before[i].Link)

C1_Witness ==
    /\ op = "remove_duplicates"
    /\ Len(before) = 3 /\ Len(dataframe) = 2
    /\ before[1].Link # before[2].Link
    /\ before[3].Link = before[2].Link
    /\ before[3].Person # before[2].Person /\ before[3].Title # before[2].Title
    /\ dataframe = <<before[1], before[2]>>

RewriteKeys == DOMAIN REWRITE_NAMES
CanonicalNames == {REWRITE_NAMES[k] : k \in RewriteKeys}
QueriedPersons(t) == \A i \in 1..Len(t) : t[i].Person \in Range(SEARCH_QUERY)

\* C7: after rename_person on a table of queried persons, every Person is a
\* canonical name, none is a key of REWRITE_NAMES, and a Person that was no
\* key is what it was.
C7_OnlyCanonicalNamesRemain ==
    (op = "rename_person" /\ QueriedPersons(before)) =>
        /\ Len(dataframe) = Len(before)
        /\ \A i \in 1..Len(dataframe) :
              /\ dataframe[i].Person \notin RewriteKeys
              /\ dataframe[i].Person \in CanonicalNames
              /\ before[i].Person \notin RewriteKeys => dataframe[i].Person = before[i].Person

C7_Witness ==
    /\ op = "rename_person" /\ QueriedPersons(before)
    /\ \E i, j \in 1..Len(before) :
          /\ before[i].Person \in RewriteKeys /\ dataframe[i].Person # before[i].Person
          /\ before[j].Person \notin RewriteKeys

\* the netloc a table link was written with, lower-cased, minus "www."
WrittenHost(l) ==
    LET h == Lower((CHOOSE p \in Range(LinkHosts) : p[1] = l)[2])
    IN  IF Take(h, 4) = <<"w","w","w",".">> THEN Drop(h, 4) ELSE h

\* l is a string link whose host no blacklist entry is aligned with
CleanHostLink(l) ==
    /\ \E p \in Range(LinkHosts) : p[1] = l
    /\ ~AlignedWithSomeEntry(WrittenHost(l))

NoChain(m) == \A k \in DOMAIN m : m[k] \in DOMAIN m => m[m[k]] = m[k]

\* C6 as stated: for any mapping, renaming a renamed table changes nothing.
C6_AsStated ==
    op = "rename_person" => RenamePersons(dataframe, mapping) = dataframe

\* C6, amended: for any mapping that sends no key to a key mapped elsewhere
\* (REWRITE_NAMES is one), renaming a renamed table changes nothing.
C6_IdempotentWithoutChains ==
    (op = "rename_person" /\ NoChain(mapping)) =>
        RenamePersons(dataframe, mapping) = dataframe

C6_Witness ==
    /\ op = "rename_person" /\ NoChain(mapping)
    /\ Cardinality(DOMAIN mapping) >= 2
    /\ Cardinality({i \in 1..Len(before) : dataframe[i] # before[i]}) >= 2

\* the configured mapping is among the chain-free ones
C6_ConfiguredMappingHasNoChain == mapping = REWRITE_NAMES => NoChain(mapping)

--------------------------------------------------------------------------
\* Claims about enrichment

Strategies == {"newspaper_parse", "requests_parse"}

\* C8 as stated: a strategy never replaces a Date or a body text that was
\* already there when it started, also one that was there before enrichment.
C8_FilledFieldsAreKept ==
    op \in Strategies =>
        \A i \in 1..Len(dataframe) :
            /\ ~IsNa(before[i].Date) => dataframe[i].Date = before[i].Date
            /\ ~IsNa(before[i].Tittle_text) => dataframe[i].Tittle_text = before[i].Tittle_text

\* the part of C8 that the code keeps: no strategy replaces a Date, and
\* _requests_parse replaces no body text
C8_DatesAreKept ==
    op \in Strategies =>
        \A i \in 1..Len(dataframe) :
            /\ ~IsNa(before[i].Date) => dataframe[i].Date = before[i].Date
            /\ (op = "requests_parse" /\ ~IsNa(before[i].Tittle_text))
                   => dataframe[i].Tittle_text = before[i].Tittle_text

\* the case that breaks C8: _newspaper_parse replaced a body text
C8_NewspaperReplacedText ==
    /\ op = "newspaper_parse"
    /\ ~IsNa(before[index].Tittle_text)
    /\ dataframe[index].Tittle_text # before[index].Tittle_text

\* C9: when _newspaper_parse has stored both the body text and the Date of a
\* row, neither requests.get nor find_date is called for that row.
C9_BothFilledSkipsFallbacks ==
    (stored.text /\ stored.date) => (calls.get = 0 /\ calls.find_date = 0)

C9_Witness ==
    /\ op = "requests_parse" /\ pc = "normalize"
    /\ stored.text /\ stored.date
    /\ calls = [newspaper |-> 1, find_date |-> 0, get |-> 0]

\* the row fill_single_blank_slot has just finished
Finished == index - 1

\* C10: once the strategies have run for a row with a Link, whatever they
\* found, its Date is normalized and fill_single_blank_slot returns: a Date
\* that is not null becomes the first 10 characters of its string form
\* ("2023-05-01T10:00:00Z" becomes "2023-05-01", "" stays ""), a null Date
\* stays null, no other row changes, and normalizing again changes nothing.
C10_DateIsNormalized ==
    /\ op = "requests_parse" => pc = "normalize"
    /\ op = "normalize_date" =>
          LET was == before[Finished].Date
              now == dataframe[Finished].Date
          IN  /\ outcome = "self"
              /\ IsNa(was) => now = was
              /\ ~IsNa(was) =>
                    /\ Len(now) = Min(10, Len(Str(was)))
                    /\ \A k \in 1..Len(now) : now[k] = Str(was)[k]
              /\ was = <<"2","0","2","3","-","0","5","-","0","1","T","1","0",":","0","0",":","0","0","Z">> => now = <<"2","0","2","3","-","0","5","-","0","1">>
              /\ was = <<>> => now = <<>>
              /\ NormalizeDate(now) = now
              /\ \A i \in 1..Len(dataframe) :
                    i # Finished => dataframe[i] = before[i]
              /\ dataframe[Finished] = [before[Finished] EXCEPT !.Date = now]

C10_Witness ==
    /\ op = "normalize_date"
    /\ IsDatetime(before[Finished].Date)
    /\ dataframe[Finished].Date = <<"2","0","2","3","-","0","5","-","0","1">>
    /\ calls.newspaper = 1


\* s is YYYY-MM-DD: 4 digits, "-", 2 digits, "-", 2 digits
IsYMD(s) ==
    /\ Len(s) = 10
    /\ s[5] = "-" /\ s[8] = "-"
    /\ \A k \in {1, 2, 3, 4, 6, 7, 9, 10} : s[k] \in Range(Digits)

\* C11 as stated: when enrichment has finished, every Date that is not null
\* is YYYY-MM-DD, whatever raw date the search, the article or the date
\* heuristic supplied.
C11_AsStated ==
    (pc = "done" /\ op # "none") =>
        \A i \in 1..Len(dataframe) :
            ~IsNa(dataframe[i].Date) => IsYMD(dataframe[i].Date)

\* how C11 fails: a normalized Date that is the first 10 characters of a
\* date not written year first ...
C11_NormalizedDateIsNoDate ==
    /\ op = "normalize_date"
    /\ before[Finished].Date = Date_Text
    /\ dataframe[Finished].Date = <<"M","a","y"," ","1",","," ","2","0","2">>

\* ... and the Date of a row without a Link, which is never normalized
C11_SkippedRowKeepsRawDate ==
    /\ op = "skip_row_without_link"
    /\ dataframe[Finished].Date = Date_ISO

\* the part of C11 the code keeps: the dates the article and the date
\* heuristic supply, and ISO 8601 dates of the search, normalize to YYYY-MM-DD
C11_IsoDatesAreShaped ==
    (op = "normalize_date"
        /\ (IsDatetime(before[Finished].Date) \/ IsYMD(Take(before[Finished].Date, 10))))
    => IsYMD(dataframe[Finished].Date)

\* a body text is missing, or null
NoText(text) == text = NoColumn \/ IsNa(text)

LinkEmptyOrNull(l) == l = NaN \/ l = None \/ l = <<>>

RowSteps == {"skip_row_without_link", "newspaper_parse", "requests_parse", "normalize_date"}

\* the row the last step of the loop worked on
Worked == IF op \in {"skip_row_without_link", "normalize_date"} THEN Finished ELSE index

\* C13: a row whose Link is empty or null is skipped: no step of the loop
\* changes it (its Date is not normalized), no strategy runs for it,
\* fill_single_blank_slot returns False without raising, and the loop goes on
\* with the next row.
C13_RowWithoutLinkIsSkipped ==
    op \in RowSteps =>
        /\ \A i \in 1..Len(before) :
              LinkEmptyOrNull(before[i].Link) => dataframe[i] = before[i]
        /\ LinkEmptyOrNull(before[Worked].Link) =>
              /\ op = "skip_row_without_link"
              /\ outcome = "False"
              /\ calls = NoCalls
              /\ index = Worked + 1
              /\ pc = IF Worked = Len(dataframe) THEN "done" ELSE "row"
        /\ op = "skip_row_without_link" => LinkEmptyOrNull(before[Worked].Link)

C13_Witness ==
    /\ op = "skip_row_without_link"
    /\ before[Worked].Link = <<>>
    /\ Worked = 2 /\ ~LinkEmptyOrNull(before[1].Link)
    /\ pc = "done"

C13_WitnessNullLink ==
    /\ op = "skip_row_without_link"
    /\ before[Worked].Link = NaN /\ dataframe[Worked].Date = Date_ISO
    /\ pc = "row"

\* C14: an oracle that raises never ends the loop. The strategy whose oracle
\* raised leaves its field as it was; after a failed _newspaper_parse
\* _requests_parse still runs, find_date is still asked for a missing Date and
\* requests.get for a missing text, also after find_date raised; the Date is
\* normalized and the loop moves to the next row; and no oracle is asked more
\* than once for a row.
C14_FailuresNeverAbort ==
    /\ calls \in [newspaper : {0, 1}, find_date : {0, 1}, get : {0, 1}]
    /\ (op = "newspaper_parse" /\ "newspaper" \in stored.failed) =>
          /\ dataframe = before
          /\ pc = "requests"
    /\ op = "requests_parse" =>
          /\ pc = "normalize"
          /\ calls.newspaper = 1
          /\ calls.find_date = (IF IsNa(before[index].Date) THEN 1 ELSE 0)
          /\ calls.get = (IF IsNa(before[index].Tittle_text) THEN 1 ELSE 0)
          /\ "find_date" \in stored.failed => dataframe[index].Date = before[index].Date
          /\ "get" \in stored.failed =>
                dataframe[index].Tittle_text = before[index].Tittle_text
          /\ \A i \in 1..Len(dataframe) : i # index => dataframe[i] = before[i]
    /\ op = "normalize_date" =>
          /\ index = Finished + 1
          /\ pc = IF Finished = Len(dataframe) THEN "done" ELSE "row"
    /\ pc = "done" => index = Len(dataframe) + 1

\* every oracle raised for the first of two rows: the row is as it was and
\* the loop is at the second row
C14_Witness ==
    /\ op = "normalize_date" /\ Finished = 1
    /\ stored.failed = {"newspaper", "find_date", "get"}
    /\ calls = [newspaper |-> 1, find_date |-> 1, get |-> 1]
    /\ IsNa(dataframe[1].Date) /\ IsNa(dataframe[1].Tittle_text)
    /\ pc = "row" /\ index = 2

\* C19 as stated, for fill_single_blank_slot: called for a row it returns the
\* handle it was called on, in every outcome, the skipped row included, and
\* a skipped row leaves the table as it was.
C19_AsStated ==
    (op \in {"skip_row_without_link", "normalize_date"}) =>
        /\ outcome = "self"
        /\ op = "skip_row_without_link" => dataframe = before

\* how C19 fails: for a row without a Link the method returns False
C19_SkippedRowReturnsFalse ==
    /\ op = "skip_row_without_link" /\ outcome = "False"
    /\ Len(before) = 2 /\ IsNa(before[1].Link) /\ index = 2
    /\ dataframe = before

\* C23 as stated: enrichment of a finite table terminates: every call of a
\* strategy returns, with a value or with nothing found, and
\* fill_all_blank_slots finishes.
C23_AsStated == <>(pc = "done")

\* how C23 fails: the second row waits in requests.get, which has no timeout
C23_GetWaitsForEver ==
    /\ pc = "blocked" /\ index = 2 /\ calls.get = 1
    /\ IsNa(dataframe[2].Tittle_text)

\* what the code keeps of C23: unless requests.get never returns,
\* fill_all_blank_slots finishes
C23_FinishesUnlessGetBlocks == <>(pc \in {"done", "blocked"})

\* ... and it visits the rows one after the other, each once
C23_RowsInOrder == [][index' \in {index, index + 1} /\ index' <= Len(dataframe) + 1]_vars
--------------------------------------------------------------------------
\* Claims about sorting and remove_by_links

Sorts == {"sort_by_column", "sort_by_multiple_columns"}

\* C18: when the column, or one column of the list, is not in the table,
\* sort_by_column and sort_by_multiple_columns raise ValueError and the table
\* is what it was, with inplace True and False; they raise nothing else, and
\* nothing when every column is there.
C18_MissingColumnIsReported ==
    op \in Sorts =>
        IF \E k \in 1..Len(shape.by) : shape.by[k] \notin ColumnsOf(before)
        THEN outcome = "ValueError" /\ dataframe = before /\ result = "none"
        ELSE outcome = (IF shape.inplace THEN "self" ELSE "DataFrame")

\* a later name of the list is missing, and sorting would have reordered
C18_Witness ==
    /\ op = "sort_by_multiple_columns"
    /\ shape.by = <<"Date", "Published">> /\ ~shape.inplace
    /\ outcome = "ValueError"
    /\ Len(before) = 2 /\ before[1].Date = Date_ISO /\ before[2].Date = Date_Day
    /\ dataframe = before

C18_WitnessOneColumn ==
    /\ op = "sort_by_column"
    /\ shape.by = <<"Tittle text">> /\ shape.inplace
    /\ outcome = "ValueError"
    /\ Len(before) = 2 /\ dataframe = before

\* the part of C19 about sorting and remove_by_links: called in place they
\* return self; called with inplace=False they return a table and leave the
\* table of the handle as it was
C19_DetachedLeavesTable ==
    (op \in Sorts \cup {"remove_by_links"} /\ outcome \in {"self", "DataFrame"}) =>
        IF shape.inplace
        THEN outcome = "self" /\ result = "none"
        ELSE outcome = "DataFrame" /\ dataframe = before

C19_DetachedWitness ==
    /\ op = "sort_by_column" /\ ~shape.inplace
    /\ outcome = "DataFrame"
    /\ Len(before) = 2 /\ dataframe = before
    /\ result = <<before[2], before[1]>>

\* Link l holds one of the strings of links
LiteralHit(l, links) == \E k \in 1..Len(links) : Contains(l, links[k])

\* C20 as stated: remove_by_links removes the rows whose Link holds one of
\* the strings of links, and no other row: rows without a Link stay, and with
\* an empty list every row stays; the rows kept are in their old order.
C20_AsStated ==
    (op = "remove_by_links" /\ shape.inplace) =>
        /\ outcome = "self"
        /\ dataframe = SelectRows(before,
               {i \in 1..Len(before) :
                   IsNa(before[i].Link) \/ ~LiteralHit(before[i].Link, shape.links)})

\* how C20 fails: a listed link with "?" in it stays, ...
C20_ListedLinkIsKept ==
    /\ op = "remove_by_links" /\ shape.links = LINKS_TO_REMOVE /\ outcome = "self"
    /\ \E i \in 1..Len(dataframe) : dataframe[i].Link = Link_youtube

\* ... a link that holds none of the strings goes, ...
C20_UnlistedLinkIsRemoved ==
    /\ op = "remove_by_links" /\ shape.links = LINKS_TO_REMOVE /\ outcome = "self"
    /\ before = <<CHOOSE r \in StageRows : r.Link = Link_drugs>>
    /\ dataframe = <<>>

\* ... and the empty list removes every row that has a Link
C20_EmptyListRemovesRows ==
    /\ op = "remove_by_links" /\ shape.links = <<>> /\ outcome = "self"
    /\ Len(before) = 2 /\ dataframe = <<>>

\* what the code keeps of C20: the rows kept are rows of the table in their
\* old order, a row without a Link is kept, and a row whose Link holds one of
\* the strings is removed when the strings hold no "?"
C20_KeptRowsKeepOrder ==
    (op = "remove_by_links" /\ outcome = "self") =>
        /\ IsSubTable(dataframe, before)
        /\ \A i \in 1..Len(before) :
              /\ IsNa(before[i].Link) => \E k \in 1..Len(dataframe) : dataframe[k] = before[i]
              /\ (shape.links = <<<<".","p","d","f">>>> /\ LiteralHit(before[i].Link, shape.links))
                    => \A k \in 1..Len(dataframe) : dataframe[k] # before[i]
--------------------------------------------------------------------------
\* Claims about process_and_sort_data and the classifier gate

\* C15 as stated: a run that has come through enrichment, whatever the
\* strategies found, goes on to the sort and the export: the call after
\* fill_all_blank_slots returns and no exception ends the run.
C15_AsStated ==
    op = "apply_ai_filter" => (outcome = "self" /\ pc # "raised")

\* how C15 fails: every strategy failed for both rows left, and the run ends
\* in the AttributeError of line 89
C15_RunEndsAtTheGate ==
    /\ pc = "raised" /\ op = "apply_ai_filter" /\ outcome = "AttributeError"
    /\ Len(dataframe) = 2
    /\ \A i \in 1..2 : IsNa(dataframe[i].Tittle_text)

\* runs also end before enrichment, in apply_url_filter (see C4)
C15_RunEndsInUrlFilter ==
    pc = "raised" /\ op = "apply_url_filter" /\ outcome = "ValueError"

\* C16 as stated: the gate removes the rows that have a body text the oracle
\* rejects, and no others: what it leaves are rows of the table in their
\* order, among them every row without a body text.
C16_AsStated ==
    op = "apply_ai_filter" =>
        /\ outcome # "AttributeError"
        /\ IsSubTable(dataframe, before)
        /\ \A i \in 1..Len(before) :
              IsNa(before[i].Tittle_text) =>
                  \E k \in 1..Len(dataframe) : dataframe[k] = before[i]

\* how C16 fails: a row with a body text reaches the gate and there is no
\* gate to ask the oracle about it
C16_NoGateForRowsWithText ==
    /\ op = "apply_ai_filter" /\ outcome = "AttributeError"
    /\ \E i \in 1..Len(before) : ~IsNa(before[i].Tittle_text)

OracleFailed == shape.kind \in {"raises", "no choices", "no content"}

\* C17 as stated: when the oracle fails for a row (timeout, API error, empty
\* or malformed response) no exception comes out of the classification of
\* that row, and an answer that is not "yes" in some case counts as negative.
C17_AsStated ==
    op = "is_article" =>
        /\ OracleFailed => result \in {"True", "False", "undecided"}
        /\ shape.kind = "content" => result \in {"True", "False"}

\* how C17 fails: the exception of the client leaves is_article, ...
C17_OracleErrorEscapes ==
    op = "is_article" /\ shape.kind = "raises" /\ result = "APITimeoutError"

\* ... and so does the one raised on a response without content
C17_EmptyResponseRaises ==
    op = "is_article" /\ shape.kind = "no content" /\ result = "AttributeError"

\* the part of C17 the code keeps: the verdict is True for the answers that
\* are "yes" in any case between whitespace, False for every other answer
C17_OnlyYesIsAffirmative ==
    (op = "is_article" /\ shape.kind = "content") =>
        (result = "True") =
            (\E w \in { <<"y","e","s">>, <<"Y","e","s">>, <<"Y","E","S">>} :
                shape.content \in {w, <<" ">> \o w \o <<"\n">>})

EnrichmentSteps ==
    {"fill_all_blank_slots", "skip_row_without_link", "newspaper_parse",
     "requests_parse", "normalize_date"}

\* what enrichment may not touch in a row
Identity(row) == <<row.Link, row.Person, row.Title, row.Source>>

LinksUnique(t) == \A i, j \in 1..Len(t) : i < j => t[i].Link # t[j].Link

\* C24: no step of fill_all_blank_slots, whatever the oracles answer, adds,
\* removes or moves a row or changes the Link, Person, Title or Source of a
\* row; and from remove_duplicates on, through all of enrichment, no two rows
\* have the same Link.
C24_OnlyDateAndTextChange ==
    /\ [][op' \in EnrichmentSteps =>
            /\ Len(dataframe') = Len(dataframe)
            /\ \A i \in 1..Len(dataframe) :
                  Identity(dataframe'[i]) = Identity(dataframe[i])]_vars
    /\ [](pc # "remove_duplicates" => LinksUnique(dataframe))

\* enrichment has finished on two rows with different Links, and stored a
\* text in the first and a Date in the second, which came without one
C24_Witness ==
    /\ pc = "done" /\ op = "normalize_date"
    /\ Len(dataframe) = 2
    /\ dataframe[1].Link = Link_a /\ dataframe[2].Link = Link_b
    /\ dataframe[1].Person = "Oleh Nivievskyi"
    /\ ~IsNa(dataframe[1].Tittle_text)
    /\ ~IsNa(dataframe[2].Date)

\* the same frame in enrichment on its own, where rows without a Link are
\* skipped and rows come with a text
C24_FrameOfEveryStep ==
    [][/\ Len(dataframe') = Len(dataframe)
       /\ \A i \in 1..Len(dataframe) : Identity(dataframe'[i]) = Identity(dataframe[i])]_vars
--------------------------------------------------------------------------
\* Claims about GoogleSearchService.search

RequestFailed == outcome \in {"HttpError", "Exception"}

\* C21 as stated: search returns the empty list when a request of some page
\* raised or when nothing was found, at most min(max_results, 100) items
\* otherwise, and sends at most 10 requests.
C21_AsStated ==
    pc = "returned" =>
        /\ RequestFailed => result = <<>>
        /\ Len(result) <= Min(shape.asked, api_limit)
        /\ calls <= 10

\* how C21 fails: the second request raises and the ten items of the first
\* page are returned
C21_ErrorKeepsEarlierPages ==
    /\ pc = "returned" /\ outcome = "HttpError"
    /\ calls = 2 /\ stored.start = 11
    /\ result = Items(1, page_size)

\* what the code keeps of C21: nothing is returned when the first request
\* raises or finds nothing, never more than min(max_results, 100) items and
\* never more than 10 requests, each for 1 to 10 items
C21_BoundedResultsAndRequests ==
    /\ calls \in 0..10
    /\ pc \in {"page", "loop done", "returned"} =>
          /\ Len(result) <= Min(shape.asked, api_limit)
          /\ calls <= (shape.max_results + page_size - 1) \div page_size
          /\ (calls = 1 /\ pc # "page" /\ outcome # "items") => result = <<>>
    /\ op = "request_page" => stored.num \in 1..page_size

\* a full run: ten requests of ten items
C21_TenRequests ==
    pc = "returned" /\ calls = 10 /\ Len(result) = api_limit /\ shape.asked = 150
--------------------------------------------------------------------------
\* Claims about the scenario of three rows

\* C22: after remove_duplicates, rename_person, remove_by_links with
\* LINKS_TO_REMOVE and apply_url_filter on the three rows (a), (b), (c), the
\* table holds one row: (b), with Person "Oleh Nivievskyi" and its own Title,
\* Date and Source; and no call raises on the way.
C22_ScenarioLeavesRowB ==
    /\ outcome \in {"none", "self"}
    /\ (op = "apply_url_filter") =>
          \E d \in {Date_ISO, Date_Day, NaN} :
             dataframe = <<Row("Oleh Nivievskyi", "Grain exports", d, "example.com",
                               Link_a, NoColumn)>>
    /\ (op = "remove_duplicates") =>
          /\ Len(dataframe) = 2
          /\ \E i \in 1..2 : dataframe[i].Link = Link_a /\ dataframe[i].Title = "Grain exports"

\* the four calls have run; the row of kse.ua reached the url filter, which
\* removed it, and the row kept carries the Date of (b)
C22_Witness ==
    /\ op = "apply_url_filter" /\ pc = "idle"
    /\ Len(before) = 2 /\ before[1].Link = Link_kse
    /\ dataframe = <<before[2]>>
    /\ dataframe[1].Person = "Oleh Nivievskyi" /\ dataframe[1].Date = Date_ISO
====
